---------------------------- MODULE Spec2Model ----------------------------
(***************************************************************************)
(* udptunnel: a datagram tunnel over a byte stream.                        *)
(*                                                                         *)
(* The model follows src/src/udptunnel.c: the frame codec (udp_to_tcp,     *)
(* tcp_to_udp, send_udp_packet), the relay loop (main_loop) and the        *)
(* start-up of the two roles (main, send_handshake).                       *)
(*                                                                         *)
(* Byte strings keep their real lengths (the stream buffer has 65536       *)
(* bytes, a payload up to 65534): a byte string is held run-length         *)
(* encoded, as a sequence of runs [b |-> byte, n |-> count] with n >= 1    *)
(* and no two adjacent runs of the same byte, so that two byte strings are *)
(* equal exactly when their encodings are equal.                           *)
(***************************************************************************)
EXTENDS Integers, Sequences, FiniteSets, TLC

(***************************************************************************)
(* Program constants.                                                      *)
(***************************************************************************)
TCPBUFFERSIZE == 65536

UDPBUFFERSIZE == TCPBUFFERSIZE - 2

\* sizeof(relay->handshake)
HandshakeLen == 32

\* sizeof(uint16_t), the length prefix of a frame
LengthLen == 2

\* the range of one byte, and of the uint16_t length field
ByteRange == 256

(***************************************************************************)
(* Byte strings.                                                           *)
(***************************************************************************)
Rep(b, n) == IF n <= 0 THEN << >> ELSE << [b |-> b, n |-> n] >>

BCat(s, t) ==
    IF s = << >> THEN t
    ELSE IF t = << >> THEN s
    ELSE IF s[Len(s)].b = t[1].b
         THEN SubSeq(s, 1, Len(s) - 1)
              \o << [b |-> t[1].b, n |-> s[Len(s)].n + t[1].n] >>
              \o Tail(t)
         ELSE s \o t

\* The recursions halve the sequence of runs, so that their depth stays
\* small for a string of many runs.
RECURSIVE BLen(_)
BLen(s) ==
    IF s = << >> THEN 0
    ELSE IF Len(s) = 1 THEN s[1].n
    ELSE LET h == Len(s) \div 2
         IN  BLen(SubSeq(s, 1, h)) + BLen(SubSeq(s, h + 1, Len(s)))

\* the first k bytes of s (all of s when it has fewer)
RECURSIVE BTake(_, _)
BTake(s, k) ==
    IF k <= 0 \/ s = << >> THEN << >>
    ELSE IF Len(s) = 1
         THEN << [b |-> s[1].b, n |-> IF s[1].n >= k THEN k ELSE s[1].n] >>
    ELSE LET h == Len(s) \div 2
             left == SubSeq(s, 1, h)
             n == BLen(left)
         IN  IF k <= n THEN BTake(left, k)
             ELSE left \o BTake(SubSeq(s, h + 1, Len(s)), k - n)

\* s without its first k bytes
RECURSIVE BDrop(_, _)
BDrop(s, k) ==
    IF k <= 0 \/ s = << >> THEN s
    ELSE IF Len(s) = 1
         THEN IF s[1].n > k THEN << [b |-> s[1].b, n |-> s[1].n - k] >> ELSE << >>
    ELSE LET h == Len(s) \div 2
             left == SubSeq(s, 1, h)
             right == SubSeq(s, h + 1, Len(s))
             n == BLen(left)
         IN  IF k < n THEN BDrop(left, k) \o right
             ELSE BDrop(right, k - n)

\* the n bytes of s from offset i (0-based)
BSub(s, i, n) == BTake(BDrop(s, i), n)

\* the byte of s at offset i (0-based); s has more than i bytes
BAt(s, i) == BDrop(s, i)[1].b

\* the byte string of a sequence of bytes
RECURSIVE FromSeq(_)
FromSeq(q) ==
    IF q = << >> THEN << >>
    ELSE IF Len(q) = 1 THEN Rep(q[1], 1)
    ELSE LET h == Len(q) \div 2
         IN  BCat(FromSeq(SubSeq(q, 1, h)), FromSeq(SubSeq(q, h + 1, Len(q))))

\* s with the byte at offset i replaced by c
BSet(s, i, c) == BCat(BCat(BTake(s, i), Rep(c, 1)), BDrop(s, i + 1))


(***************************************************************************)
(* The wire format: htons/ntohs of the length field, and the handshake.    *)
(***************************************************************************)
\* p.length = htons(buflen): the uint16_t in network byte order
htons(n) == BCat(Rep((n % (ByteRange * ByteRange)) \div ByteRange, 1),
                 Rep(n % ByteRange, 1))

\* ntohs(*(uint16_t *) at offset i of s)
ntohs(s, i) == BAt(s, i) * ByteRange + BAt(s, i + 1)

\* "udptunnel by md.\0\0\0\x01\x03\x06\x10\x15\x21\x28\x36\x45\x55\x66\x78\x91"
DefaultHandshake ==
    FromSeq(<< 117, 100, 112, 116, 117, 110, 110, 101,
               108, 32, 98, 121, 32, 109, 100, 46,
               0, 0, 0, 1, 3, 6, 16, 21,
               33, 40, 54, 69, 85, 102, 120, 145 >>)

\* struct out_packet as send() puts it on the stream: length, then buf
out_packet(data) == BCat(htons(BLen(data)), data)

(***************************************************************************)
(* struct relay, and the record a process step works on.                   *)
(*                                                                         *)
(* buf holds the bytes of relay.buf below buf_ptr (the bytes above it are   *)
(* never read); buf_ptr and packet_start are offsets into relay.buf.       *)
(***************************************************************************)
NoAddr == "unset"

ZeroRelay ==
    [ remote_udpaddr   |-> NoAddr,
      expect_handshake |-> FALSE,
      handshake        |-> << >>,
      udp_timeout      |-> 0,
      tcp_timeout      |-> 0,
      buf              |-> << >>,
      buf_ptr          |-> 0,
      packet_start     |-> 0,
      packet_length    |-> 0,
      state            |-> "uninitialized" ]

\* log_printf_exit / err_sys: the process ends; its memory is gone
Exit(p, status, msg) ==
    [p EXCEPT !.pc = "exited", !.exit_status = status, !.exit_msg = msg,
              !.relay = ZeroRelay,
              !.last_udp_input = 0, !.last_tcp_input = 0]

err_sys(p, msg) == Exit(p, 1, msg)

Running(p) == p.pc # "exited"

(***************************************************************************)
(* send_udp_packet.  o is what sendto does: "ok", "refused"                *)
(* (ECONNREFUSED), "refused_badsock" (ECONNREFUSED, then getsockopt        *)
(* fails) or "error" (any other errno).                                    *)
(***************************************************************************)
SendOutcomes == {"ok", "refused", "refused_badsock", "error"}

\* the payload taken at buf, not at buf + packet_start
PacketData_at_buf(r) == BTake(r.buf, r.packet_length)

PacketData(r) == BSub(r.buf, r.packet_start, r.packet_length)

UdpLog(p, result) ==
    [p EXCEPT !.udp_tx = Append(@, [to     |-> p.relay.remote_udpaddr,
                                    data   |-> PacketData(p.relay),
                                    result |-> result])]

\* send_udp_packet that leaves out a packet of no bytes
send_udp_packet_skips_empty(p, o) ==
    IF p.relay.remote_udpaddr = NoAddr THEN UdpLog(p, "nopeer")
    ELSE IF p.relay.packet_length = 0 THEN p
    ELSE IF o = "ok" THEN UdpLog(p, "sent")
    ELSE IF o = "error" THEN err_sys(UdpLog(p, "error"), "sendto(udp)")
    ELSE IF o = "refused_badsock"
         THEN err_sys(UdpLog(p, "refused"), "getsockopt(udp, SOL_SOCKET, SO_ERROR)")
    ELSE UdpLog(p, "refused")

\* send_udp_packet without the test of remote_udpaddr.ss_family
send_udp_packet_no_peer_check(p, o) ==
    IF o = "ok" THEN UdpLog(p, "sent")
    ELSE IF o = "error" THEN err_sys(UdpLog(p, "error"), "sendto(udp)")
    ELSE IF o = "refused_badsock"
         THEN err_sys(UdpLog(p, "refused"), "getsockopt(udp, SOL_SOCKET, SO_ERROR)")
    ELSE UdpLog(p, "refused")

\* send_udp_packet without the test of errno: ECONNREFUSED ends the relay
send_udp_packet_refused_is_fatal(p, o) ==
    IF p.relay.remote_udpaddr = NoAddr THEN UdpLog(p, "nopeer")
    ELSE IF o = "ok" THEN UdpLog(p, "sent")
    ELSE IF o = "error" THEN err_sys(UdpLog(p, "error"), "sendto(udp)")
    ELSE err_sys(UdpLog(p, "refused"), "sendto(udp)")

\* send_udp_packet that goes on after any failure of sendto
send_udp_packet_error_ignored(p, o) ==
    IF p.relay.remote_udpaddr = NoAddr THEN UdpLog(p, "nopeer")
    ELSE IF o = "ok" THEN UdpLog(p, "sent")
    ELSE IF o = "error" THEN UdpLog(p, "error")
    ELSE IF o = "refused_badsock"
         THEN err_sys(UdpLog(p, "refused"), "getsockopt(udp, SOL_SOCKET, SO_ERROR)")
    ELSE UdpLog(p, "refused")

send_udp_packet(p, o) ==
    IF p.relay.remote_udpaddr = NoAddr THEN UdpLog(p, "nopeer")
    ELSE IF o = "ok" THEN UdpLog(p, "sent")
    ELSE IF o = "error" THEN err_sys(UdpLog(p, "error"), "sendto(udp)")
    ELSE IF o = "refused_badsock"
         THEN err_sys(UdpLog(p, "refused"), "getsockopt(udp, SOL_SOCKET, SO_ERROR)")
    ELSE UdpLog(p, "refused")

(***************************************************************************)
(* tcp_to_udp.                                                             *)
(*                                                                         *)
(* fault = [at |-> i, o |-> outcome]: the i-th sendto of this call ends    *)
(* with that outcome, every other one succeeds (at = 0: all succeed).      *)
(***************************************************************************)
\* InitParser that never expects a handshake
InitParser_no_handshake(r) ==
    IF r.state # "uninitialized" THEN r
    ELSE [r EXCEPT !.state = "reading_length",
                   !.packet_length = LengthLen,
                   !.buf_ptr = 0, !.packet_start = 0]

\* lines 451-461: the first call sets the parser up
InitParser(r) ==
    IF r.state # "uninitialized" THEN r
    ELSE IF r.expect_handshake
         THEN [r EXCEPT !.state = "reading_handshake",
                        !.packet_length = HandshakeLen,
                        !.buf_ptr = 0, !.packet_start = 0]
         ELSE [r EXCEPT !.state = "reading_length",
                        !.packet_length = LengthLen,
                        !.buf_ptr = 0, !.packet_start = 0]

\* a read() that is handed the size of the whole buffer as its count
ReadCount_whole(r) == TCPBUFFERSIZE

\* the count handed to read(): the room left above buf_ptr
ReadCount(r) == TCPBUFFERSIZE - r.buf_ptr

\* lines 501-506: the bytes after the packet move to the start of buf
Compact(r) ==
    [r EXCEPT !.buf = BSub(r.buf, r.packet_start + r.packet_length,
                           r.buf_ptr - (r.packet_start + r.packet_length)),
              !.buf_ptr = r.buf_ptr - (r.packet_length + r.packet_start),
              !.packet_start = 0,
              !.state = "reading_length",
              !.packet_length = LengthLen]

\* the comparison as strcmp would make it: it stops at the first NUL
HandshakeMatches_strcmp(r) ==
    BSub(r.buf, r.packet_start, HandshakeLen \div 2) = BTake(r.handshake, HandshakeLen \div 2)

\* line 475: memcmp of the 32 bytes at packet_start with relay->handshake
HandshakeMatches(r) == BSub(r.buf, r.packet_start, HandshakeLen) = r.handshake

\* a pass of the loop body that, when the packet was not sent, throws away
\* what the buffer holds behind it
ParseStep_drop_flushes(p, fault) ==
    LET r == p.relay IN
    IF r.state = "reading_handshake" THEN
        IF ~HandshakeMatches(r)
        THEN Exit(p, 0, "Received a bad handshake, exiting")
        ELSE [p EXCEPT !.relay.packet_start = r.packet_start + HandshakeLen,
                       !.relay.state = "reading_length",
                       !.relay.packet_length = LengthLen]
    ELSE IF r.state = "reading_length" THEN
        [p EXCEPT !.relay.packet_length = ntohs(r.buf, r.packet_start),
                  !.relay.packet_start = r.packet_start + LengthLen,
                  !.relay.state = "reading_packet"]
    ELSE
        LET n == p.nsend + 1
            q == send_udp_packet([p EXCEPT !.nsend = n],
                                 IF fault.at = n THEN fault.o ELSE "ok")
        IN  IF ~Running(q) THEN q
            ELSE IF q.udp_tx[Len(q.udp_tx)].result = "sent"
            THEN [q EXCEPT !.relay = Compact(q.relay)]
            ELSE [q EXCEPT !.relay.buf = << >>, !.relay.buf_ptr = 0,
                           !.relay.packet_start = 0,
                           !.relay.state = "reading_length",
                           !.relay.packet_length = LengthLen]

\* one pass of the body of the while loop, lines 473-507
ParseStep(p, fault) ==
    LET r == p.relay IN
    IF r.state = "reading_handshake" THEN
        IF ~HandshakeMatches(r)
        THEN Exit(p, 0, "Received a bad handshake, exiting")
        ELSE [p EXCEPT !.relay.packet_start = r.packet_start + HandshakeLen,
                       !.relay.state = "reading_length",
                       !.relay.packet_length = LengthLen]
    ELSE IF r.state = "reading_length" THEN
        [p EXCEPT !.relay.packet_length = ntohs(r.buf, r.packet_start),
                  !.relay.packet_start = r.packet_start + LengthLen,
                  !.relay.state = "reading_packet"]
    ELSE
        LET n == p.nsend + 1
            q == send_udp_packet([p EXCEPT !.nsend = n],
                                 IF fault.at = n THEN fault.o ELSE "ok")
        IN  IF Running(q) THEN [q EXCEPT !.relay = Compact(q.relay)] ELSE q

\* an if in the place of the while: one pass for each read
ParseLoop_once(p, fault) ==
    IF Running(p) /\ p.relay.buf_ptr - p.relay.packet_start >= p.relay.packet_length
    THEN ParseStep(p, fault) ELSE p

\* line 472: the while loop
RECURSIVE ParseLoop(_, _)
ParseLoop(p, fault) ==
    IF ~Running(p) THEN p
    ELSE IF p.relay.buf_ptr - p.relay.packet_start >= p.relay.packet_length
         THEN ParseLoop(ParseStep(p, fault), fault)
         ELSE p

\* tcp_to_udp that takes the end of the stream for a failed read
tcp_to_udp_eof_is_error(p, read_len, fault) ==
    LET r0 == InitParser(p.relay)
        p0 == [p EXCEPT !.relay = r0, !.nsend = 0]
    IN  IF read_len <= 0 THEN err_sys(p0, "read(tcp)")
        ELSE ParseLoop([p0 EXCEPT !.relay.buf = BCat(r0.buf, BTake(p.inq, read_len)),
                                  !.relay.buf_ptr = r0.buf_ptr + read_len,
                                  !.inq = BDrop(p.inq, read_len),
                                  !.tcp_rx = BCat(p.tcp_rx, BTake(p.inq, read_len))],
                       fault)

\* read_len: -1 is a failed read, 0 the end of the stream, k > 0 the bytes
\* read() returned, which are the next k bytes of the stream p.inq
tcp_to_udp(p, read_len, fault) ==
    LET r0 == InitParser(p.relay)
        p0 == [p EXCEPT !.relay = r0, !.nsend = 0]
    IN  IF read_len < 0 THEN err_sys(p0, "read(tcp)")
        ELSE IF read_len = 0
             THEN Exit(p0, 0, "Remote closed the connection")
        ELSE ParseLoop([p0 EXCEPT !.relay.buf = BCat(r0.buf, BTake(p.inq, read_len)),
                                  !.relay.buf_ptr = r0.buf_ptr + read_len,
                                  !.inq = BDrop(p.inq, read_len),
                                  !.tcp_rx = BCat(p.tcp_rx, BTake(p.inq, read_len))],
                       fault)

(***************************************************************************)
(* udp_to_tcp.  d is what recvfrom and send do:                            *)
(*   [from, data, recv_ok, send_ok]                                        *)
(***************************************************************************)
\* recvfrom(..., p.buf, UDPBUFFERSIZE, ...): a longer datagram is cut
recvfrom(data) == BTake(data, UDPBUFFERSIZE)

\* send(tcp_sock, frame, len, 0) that succeeds: what goes on the stream when
\* the call takes all but short bytes
send(frame, short) ==
    IF short = 0 THEN frame ELSE BTake(frame, BLen(frame) - short)

\* udp_to_tcp without the early return on buflen == 0
udp_to_tcp_forwards_empty(p, d) ==
    LET data == recvfrom(d.data) IN
    IF ~d.recv_ok THEN err_sys(p, "recvfrom(udp)")
    ELSE LET q == [p EXCEPT !.udp_rx = Append(@, [from |-> d.from, data |-> data]),
                            !.relay.remote_udpaddr = d.from]
         IN  IF ~d.send_ok THEN err_sys(q, "send(tcp)")
             ELSE [q EXCEPT !.out = Append(@, out_packet(data))]

\* udp_to_tcp that takes an empty datagram for a failed recvfrom
udp_to_tcp_empty_is_fatal(p, d) ==
    LET data == recvfrom(d.data)
        q == [p EXCEPT !.udp_rx = Append(@, [from |-> d.from, data |-> data])]
    IN  IF BLen(data) = 0 THEN err_sys(q, "recvfrom(udp)")
        ELSE [q EXCEPT !.relay.remote_udpaddr = d.from,
                       !.out = Append(@, out_packet(data))]

\* udp_to_tcp that stores the sender before it tests the length
udp_to_tcp_empty_sets_peer(p, d) ==
    LET data == recvfrom(d.data) IN
    IF ~d.recv_ok THEN err_sys(p, "recvfrom(udp)")
    ELSE LET q == [p EXCEPT !.udp_rx = Append(@, [from |-> d.from, data |-> data]),
                            !.relay.remote_udpaddr = d.from]
         IN  IF BLen(data) = 0 THEN q
             ELSE IF ~d.send_ok THEN err_sys(q, "send(tcp)")
             ELSE [q EXCEPT !.out = Append(@, out_packet(data))]

\* udp_to_tcp without the memcpy to relay->remote_udpaddr
udp_to_tcp_keeps_peer(p, d) ==
    LET data == recvfrom(d.data) IN
    IF ~d.recv_ok THEN err_sys(p, "recvfrom(udp)")
    ELSE LET q == [p EXCEPT !.udp_rx = Append(@, [from |-> d.from, data |-> data])]
         IN  IF BLen(data) = 0 THEN q
             ELSE IF ~d.send_ok THEN err_sys(q, "send(tcp)")
             ELSE [q EXCEPT !.out = Append(@, out_packet(data))]

\* lines 357-391.  d is what the calls do: recvfrom gives d.data from
\* d.from or fails, send fails or takes all but d.short bytes of the frame;
\* the value send returns is only tested for being negative.
udp_to_tcp(p, d) ==
    LET data == recvfrom(d.data) IN
    IF ~d.recv_ok THEN err_sys(p, "recvfrom(udp)")
    ELSE IF BLen(data) = 0
         THEN [p EXCEPT !.udp_rx = Append(@, [from |-> d.from, data |-> data])]
    ELSE LET q == [p EXCEPT !.udp_rx = Append(@, [from |-> d.from, data |-> data]),
                            !.relay.remote_udpaddr = d.from]
         IN  IF ~d.send_ok THEN err_sys(q, "send(tcp)")
             ELSE [q EXCEPT !.out = Append(@, send(out_packet(data), d.short))]

\* send_handshake that sends the token twice
send_handshake_twice(p, send_ok) ==
    IF ~send_ok THEN err_sys(p, "sendto(tcp, handshake)")
    ELSE [p EXCEPT !.out = @ \o << p.relay.handshake, p.relay.handshake >>]

\* send_handshake, lines 520-524
send_handshake(p, send_ok) ==
    IF ~send_ok THEN err_sys(p, "sendto(tcp, handshake)")
    ELSE [p EXCEPT !.out = Append(@, p.relay.handshake)]

(***************************************************************************)
(* Bounds of the model.                                                    *)
(***************************************************************************)
\* datagrams the environment delivers to the client's datagram socket
MaxDatagrams == 2

\* datagrams the environment delivers to the server's datagram socket
MaxReplies == 1

\* system calls that fail in one run
MaxFaults == 1

\* segments a foreign peer writes on the stream
MaxWire == 3

(***************************************************************************)
(* State.                                                                  *)
(***************************************************************************)
VARIABLES
    relay,            \* struct relay of each process
    pc,               \* where each process is: "main", "connected",
                      \* "main_loop", "exited"
    exit_status,      \* the status given to exit()
    exit_msg,         \* the last message logged before exit()
    last_udp_input,   \* main_loop's locals
    last_tcp_input,
    opts,             \* struct opts of each process
    now,              \* time(NULL)
    tcp_in,           \* the bytes on the stream towards each process, unread
    tcp_eof,          \* the other end of the stream of each process is closed
    tcp_tx,           \* the send() calls each process made on the stream
    tcp_rx,           \* the bytes each process read from the stream
    udp_tx,           \* the send_udp_packet calls of each process
    udp_rx,           \* the datagrams recvfrom gave each process
    udp_left,         \* datagrams the environment may still deliver
    faults,           \* system calls that failed so far
    wire_left,        \* segments a foreign peer may still put on the stream
    select_at,        \* time(NULL) when each process last called select()
    acc               \* the acceptor: the server process in accept_connections

vars == << relay, pc, exit_status, exit_msg, last_udp_input, last_tcp_input,
           opts, now, tcp_in, tcp_eof, tcp_tx, tcp_rx, udp_tx, udp_rx,
           udp_left, faults, wire_left, select_at, acc >>

Procs == DOMAIN pc

\* the process at the other end of e's stream socket, if it is a udptunnel
Peer(e) == IF e = "client" THEN "server"
           ELSE IF e = "server" THEN "client" ELSE "none"

\* the record a step of process e works on
P(e) ==
    [ relay |-> relay[e], pc |-> pc[e],
      exit_status |-> exit_status[e], exit_msg |-> exit_msg[e],
      last_udp_input |-> last_udp_input[e],
      last_tcp_input |-> last_tcp_input[e],
      inq |-> tcp_in[e], tcp_rx |-> tcp_rx[e],
      udp_tx |-> udp_tx[e], udp_rx |-> udp_rx[e],
      out |-> << >>, nsend |-> 0 ]

RECURSIVE Flatten(_)
Flatten(ws) == IF ws = << >> THEN << >> ELSE BCat(ws[1], Flatten(Tail(ws)))

\* the step of e ends in q: its memory, what it consumed from its stream and
\* what it wrote; exit() closes its end of the stream
CommitProc(e, q) ==
    /\ relay' = [relay EXCEPT ![e] = q.relay]
    /\ pc' = [pc EXCEPT ![e] = q.pc]
    /\ exit_status' = [exit_status EXCEPT ![e] = q.exit_status]
    /\ exit_msg' = [exit_msg EXCEPT ![e] = q.exit_msg]
    /\ last_udp_input' = [last_udp_input EXCEPT ![e] = q.last_udp_input]
    /\ last_tcp_input' = [last_tcp_input EXCEPT ![e] = q.last_tcp_input]
    /\ tcp_rx' = [tcp_rx EXCEPT ![e] = q.tcp_rx]
    /\ udp_tx' = [udp_tx EXCEPT ![e] = q.udp_tx]
    /\ udp_rx' = [udp_rx EXCEPT ![e] = q.udp_rx]
    /\ tcp_tx' = [tcp_tx EXCEPT ![e] = @ \o q.out]
    /\ tcp_in' = [x \in Procs |->
                    IF x = e THEN q.inq
                    ELSE IF x = Peer(e) /\ pc[x] # "exited"
                         THEN BCat(tcp_in[x], Flatten(q.out))
                    ELSE tcp_in[x]]
    /\ tcp_eof' = [x \in Procs |->
                    IF x = Peer(e) /\ q.pc = "exited" THEN TRUE ELSE tcp_eof[x]]
    /\ select_at' = [select_at EXCEPT ![e] = IF q.pc = "main_loop" THEN now ELSE @]

\* the same, in a process that has no acceptor part
Commit(e, q) ==
    /\ CommitProc(e, q)
    /\ acc' = acc

(***************************************************************************)
(* main_loop.                                                              *)
(***************************************************************************)
\* select() waits this many seconds when a timeout is configured
SelectWait == 10

\* lines 554-555
main_loop_enter(p, t) ==
    [p EXCEPT !.pc = "main_loop",
              !.last_udp_input = IF p.relay.udp_timeout # 0 THEN t ELSE 0,
              !.last_tcp_input = IF p.relay.tcp_timeout # 0 THEN t ELSE 0]

\* lines 575-581: ptv is &tv (TRUE) or NULL (FALSE)
HasPtv(p) == p.last_udp_input # 0 \/ p.last_tcp_input # 0

\* check_timeouts with >= in the place of >
check_timeouts_at_deadline(p, t) ==
    IF p.last_udp_input # 0 /\ t - p.last_udp_input >= p.relay.udp_timeout
    THEN Exit(p, 0, "Exiting after a timeout for UDP input")
    ELSE IF p.last_tcp_input # 0 /\ t - p.last_tcp_input >= p.relay.tcp_timeout
    THEN Exit(p, 0, "Exiting after a timeout for TCP input")
    ELSE p

\* check_timeouts that never finds a deadline passed

check_timeouts_never(p, t) == p

\* lines 591-598, reached with ready_fds = 0
check_timeouts(p, t) ==
    IF p.last_udp_input # 0 /\ t - p.last_udp_input > p.relay.udp_timeout
    THEN Exit(p, 0, "Exiting after a timeout for UDP input")
    ELSE IF p.last_tcp_input # 0 /\ t - p.last_tcp_input > p.relay.tcp_timeout
    THEN Exit(p, 0, "Exiting after a timeout for TCP input")
    ELSE p

\* tcp_ready_branch that leaves the time of the last stream input alone
tcp_ready_branch_no_refresh(p, t, read_len, fault) ==
    tcp_to_udp(p, read_len, fault)

\* lines 600-604
tcp_ready_branch(p, t, read_len, fault) ==
    LET q == tcp_to_udp(p, read_len, fault) IN
    IF Running(q) /\ q.last_tcp_input # 0
    THEN [q EXCEPT !.last_tcp_input = t] ELSE q

\* udp_ready_branch that takes only a forwarded datagram for activity
udp_ready_branch_data_only(p, t, d) ==
    LET q == udp_to_tcp(p, d) IN
    IF Running(q) /\ q.last_udp_input # 0 /\ q.out # p.out
    THEN [q EXCEPT !.last_udp_input = t] ELSE q

\* lines 605-609
udp_ready_branch(p, t, d) ==
    LET q == udp_to_tcp(p, d) IN
    IF Running(q) /\ q.last_udp_input # 0
    THEN [q EXCEPT !.last_udp_input = t] ELSE q

\* main_loop_pass that serves the datagram socket only in a pass in which
\* the stream socket is not ready
main_loop_pass_else_if(p, t, sel, tcp_set, read_len, fault, udp_set, d) ==
    IF sel = "error" THEN err_sys(p, "select")
    ELSE IF sel = "eintr" THEN p
    ELSE IF sel = "timeout" THEN check_timeouts(p, t)
    ELSE IF tcp_set THEN tcp_ready_branch(p, t, read_len, fault)
    ELSE IF udp_set THEN udp_ready_branch(p, t, d) ELSE p

\* One pass of the while (1) of main_loop.  sel is what select() did:
\* "error", "eintr" (EINTR or EAGAIN), "timeout" (0 descriptors ready) or
\* "ready"; tcp_set and udp_set are FD_ISSET of the two sockets in readfds,
\* read_len and d what read() and recvfrom() then return.
main_loop_pass(p, t, sel, tcp_set, read_len, fault, udp_set, d) ==
    IF sel = "error" THEN err_sys(p, "select")
    ELSE IF sel = "eintr" THEN p
    ELSE IF sel = "timeout" THEN check_timeouts(p, t)
    ELSE LET p1 == IF tcp_set
                   THEN tcp_ready_branch(p, t, read_len, fault) ELSE p
         IN  IF Running(p1) /\ udp_set THEN udp_ready_branch(p1, t, d) ELSE p1

(***************************************************************************)
(* The environment of a relay: what its system calls may return.           *)
(***************************************************************************)
Min(a, b) == IF a < b THEN a ELSE b

\* the bytes the parser still misses to complete what it is reading
Need(r) == r.packet_start + r.packet_length - r.buf_ptr

\* The sizes of a read that finds m bytes it may take (m >= 1), when the
\* parser misses need bytes: everything, what is missing, and one byte less
\* than that.
ChunkSizes(m, need) ==
    { k \in {need - 1, need, m} : 1 <= k /\ k <= m }

\* the stream socket of e is readable: bytes are waiting, or the end
TcpReady(e) == tcp_in[e] # << >> \/ tcp_eof[e]

\* what a successful read() of e returns
ReadLens(e) ==
    LET count == ReadCount(InitParser(relay[e])) IN
    IF count = 0 \/ tcp_in[e] = << >> THEN {0}
    ELSE ChunkSizes(Min(BLen(tcp_in[e]), count), Need(InitParser(relay[e])))

MaxPayload == Rep(200, UDPBUFFERSIZE)

\* the datagrams that may arrive on the datagram socket of e
Datagrams(e) ==
    IF opts[e].is_server
    THEN { [from |-> "dest", data |-> FromSeq(<< 82 >>)],
           [from |-> "appB", data |-> FromSeq(<< 83, 84 >>)],
           [from |-> "appB", data |-> << >>] }
    ELSE { [from |-> "appA", data |-> FromSeq(<< 65 >>)],
           [from |-> "appB", data |-> FromSeq(<< 66, 67 >>)],
           [from |-> "appA", data |-> << >>],
           [from |-> "appB", data |-> MaxPayload] }

NoFault == [at |-> 0, o |-> "ok"]

\* the frames that the bytes waiting for e can complete in one read
MaxSends == MaxDatagrams + MaxWire

SendFaults == { [at |-> i, o |-> o] :
                  i \in 1..MaxSends, o \in SendOutcomes \ {"ok"} }

(***************************************************************************)
(* Actions.                                                                *)
(***************************************************************************)
BumpProc(e, q, ndgrams, nfaults) ==
    /\ CommitProc(e, q)
    /\ udp_left' = [udp_left EXCEPT ![e] = @ - ndgrams]
    /\ faults' = faults + nfaults
    /\ UNCHANGED << opts, now, wire_left >>

Bump(e, q, ndgrams, nfaults) ==
    /\ BumpProc(e, q, ndgrams, nfaults)
    /\ acc' = acc

\* main of the server without the address udp_client stores
Start_no_destination(e, ok) ==
    /\ e \in Procs
    /\ pc[e] = "main"
    /\ ~ok => faults < MaxFaults
    /\ LET p == P(e) IN
       IF opts[e].is_server
       THEN LET q == [p EXCEPT !.relay.tcp_timeout = opts[e].timeout,
                               !.relay.expect_handshake = TRUE]
            IN  IF ~ok THEN Bump(e, err_sys(q, "socket"), 0, 1)
                ELSE Bump(e, main_loop_enter(q, now), 0, 0)
       ELSE LET q == [p EXCEPT !.relay.udp_timeout = opts[e].timeout]
            IN  IF ~ok THEN Bump(e, err_sys(q, "Cannot connect"), 0, 1)
                ELSE Bump(e, [q EXCEPT !.pc = "connected"], 0, 0)

Start_both_timers(e, ok) ==
    /\ e \in Procs
    /\ pc[e] = "main"
    /\ ~ok => faults < MaxFaults
    /\ LET p == [P(e) EXCEPT !.relay.tcp_timeout = opts[e].timeout,
                             !.relay.udp_timeout = opts[e].timeout] IN
       IF opts[e].is_server
       THEN LET q == [p EXCEPT !.relay.expect_handshake = TRUE]
            IN  IF ~ok THEN Bump(e, err_sys(q, "socket"), 0, 1)
                ELSE Bump(e, main_loop_enter(
                                [q EXCEPT !.relay.remote_udpaddr = opts[e].udpaddr],
                                now), 0, 0)
       ELSE IF ~ok THEN Bump(e, err_sys(p, "Cannot connect"), 0, 1)
            ELSE Bump(e, [p EXCEPT !.pc = "connected"], 0, 0)

\* main, lines 638-669 (server) and 671-685 (client), from the point where
\* the stream socket is there (accepted or inherited, or about to connect)
\* up to the socket calls: ok is whether they succeed
Start(e, ok) ==
    /\ e \in Procs
    /\ pc[e] = "main"
    /\ ~ok => faults < MaxFaults
    /\ LET p == P(e) IN
       IF opts[e].is_server
       THEN LET q == [p EXCEPT !.relay.tcp_timeout = opts[e].timeout,
                               !.relay.expect_handshake = TRUE]
            IN  IF ~ok THEN Bump(e, err_sys(q, "socket"), 0, 1)
                ELSE Bump(e, main_loop_enter(
                                [q EXCEPT !.relay.remote_udpaddr = opts[e].udpaddr],
                                now), 0, 0)
       ELSE LET q == [p EXCEPT !.relay.udp_timeout = opts[e].timeout]
            IN  IF ~ok THEN Bump(e, err_sys(q, "Cannot connect"), 0, 1)
                ELSE Bump(e, [q EXCEPT !.pc = "connected"], 0, 0)

\* main, lines 687-690 (client): send_handshake, then main_loop starts
Handshake(e, ok) ==
    /\ e \in Procs
    /\ pc[e] = "connected"
    /\ ~ok => faults < MaxFaults
    /\ LET q == send_handshake(P(e), ok) IN
       Bump(e, IF Running(q) THEN main_loop_enter(q, now) ELSE q,
            0, IF ok THEN 0 ELSE 1)

\* no datagram: the datagram socket is not in readfds
NoDatagram == [from |-> NoAddr, data |-> << >>, recv_ok |-> TRUE, send_ok |-> TRUE, short |-> 0]

\* The datagram socket of e has a port, so that datagrams can reach it: the
\* client's is bound by udp_listener; the server's comes from the socket()
\* of udp_client (network.c 547-551) with no bind, and gets its port from
\* the first sendto
UdpBound(e) == ~opts[e].is_server \/ udp_tx[e] # << >>

\* one pass of main_loop in which every system call succeeds
MainLoop(e) ==
    /\ e \in Procs
    /\ pc[e] = "main_loop"
    /\ \E udp_set \in BOOLEAN :
       \E d \in IF udp_set
                THEN { [from |-> x.from, data |-> x.data,
                        recv_ok |-> TRUE, send_ok |-> TRUE, short |-> 0] : x \in Datagrams(e) }
                ELSE { NoDatagram } :
       \E rl \in IF TcpReady(e) THEN ReadLens(e) ELSE {0} :
          /\ udp_set \/ TcpReady(e)
          /\ udp_set => udp_left[e] > 0 /\ UdpBound(e)
          /\ Bump(e, main_loop_pass(P(e), now, "ready", TcpReady(e), rl, NoFault,
                                    udp_set, d),
                  IF udp_set THEN 1 ELSE 0, 0)

\* a pass of main_loop in which the stream is readable and one sendto of
\* send_udp_packet does not succeed
MainLoopSendtoFails(e) ==
    /\ e \in Procs
    /\ pc[e] = "main_loop"
    /\ faults < MaxFaults
    /\ TcpReady(e)
    /\ \E rl \in ReadLens(e) :
          LET q0 == main_loop_pass(P(e), now, "ready", TRUE, rl, NoFault,
                                   FALSE, NoDatagram)
              \* the calls of send_udp_packet in this pass
              n == Len(q0.udp_tx) - Len(udp_tx[e])
          IN  \E fault \in { f \in SendFaults : f.at <= n } :
                 LET q == main_loop_pass(P(e), now, "ready", TRUE, rl, fault,
                                         FALSE, NoDatagram)
                 IN  /\ q # q0
                     /\ Bump(e, q, 0, 1)

\* a pass of main_loop in which select, read, recvfrom or send fails
MainLoopCallFails(e) ==
    /\ e \in Procs
    /\ pc[e] = "main_loop"
    /\ faults < MaxFaults
    /\ \E call \in {"select", "read", "recvfrom", "send"} :
       \E x \in Datagrams(e), rl \in IF TcpReady(e) THEN ReadLens(e) ELSE {0} :
          LET d == [from |-> x.from, data |-> x.data,
                    recv_ok |-> call # "recvfrom", send_ok |-> call # "send", short |-> 0]
              tcp_set == TcpReady(e)
              udp_set == call \in {"recvfrom", "send"}
          IN  /\ call = "read" => tcp_set
              /\ udp_set => udp_left[e] > 0 /\ UdpBound(e)
              /\ LET q == main_loop_pass(P(e), now,
                                         IF call = "select" THEN "error" ELSE "ready",
                                         tcp_set,
                                         IF call = "read" THEN -1 ELSE rl,
                                         NoFault, udp_set, d)
                 IN  /\ ~Running(q)
                     /\ q.exit_msg = (IF call = "select" THEN "select"
                                      ELSE IF call = "read" THEN "read(tcp)"
                                      ELSE IF call = "recvfrom" THEN "recvfrom(udp)"
                                      ELSE "send(tcp)")
                     /\ Bump(e, q, IF udp_set THEN 1 ELSE 0, 1)

\* select returns EINTR or EAGAIN: main_loop goes round again
MainLoopInterrupted(e) ==
    /\ e \in Procs
    /\ pc[e] = "main_loop"
    /\ Bump(e, main_loop_pass(P(e), now, "eintr", FALSE, 0, NoFault,
                              FALSE, NoDatagram), 0, 0)

\* the names processes go by
ProcIds == {"client", "server", "a", "w1", "w2", "w3"}

\* every system call succeeds
Next ==
    \/ \E e \in ProcIds : Start(e, TRUE)
    \/ \E e \in ProcIds : Handshake(e, TRUE)
    \/ \E e \in ProcIds : MainLoop(e)

\* system calls may fail
NextFaults ==
    \/ Next
    \/ \E e \in ProcIds : Start(e, FALSE)
    \/ \E e \in ProcIds : Handshake(e, FALSE)
    \/ \E e \in ProcIds : MainLoopSendtoFails(e)
    \/ \E e \in ProcIds : MainLoopCallFails(e)
    \/ \E e \in ProcIds : MainLoopInterrupted(e)

ClientOpts == [ is_server |-> FALSE, timeout |-> 0,
                handshake |-> DefaultHandshake, udpaddr |-> NoAddr ]

ServerOpts == [ is_server |-> TRUE, timeout |-> 0,
                handshake |-> DefaultHandshake, udpaddr |-> "dest" ]

\* a process started as a client, by inetd, or forked as a worker: it has
\* no acceptor part
NoAcceptor == [pc |-> "none"]

\* the state of processes with the given options after lines 628-634 of main
InitRelays(o) ==
    /\ opts = o
    /\ relay = [e \in DOMAIN o |-> [ZeroRelay EXCEPT !.handshake = o[e].handshake]]
    /\ pc = [e \in DOMAIN o |-> "main"]
    /\ exit_status = [e \in DOMAIN o |-> -1]
    /\ exit_msg = [e \in DOMAIN o |-> ""]
    /\ last_udp_input = [e \in DOMAIN o |-> 0]
    /\ last_tcp_input = [e \in DOMAIN o |-> 0]
    /\ now = 1
    /\ tcp_in = [e \in DOMAIN o |-> << >>]
    /\ tcp_eof = [e \in DOMAIN o |-> FALSE]
    /\ tcp_tx = [e \in DOMAIN o |-> << >>]
    /\ tcp_rx = [e \in DOMAIN o |-> << >>]
    /\ udp_tx = [e \in DOMAIN o |-> << >>]
    /\ udp_rx = [e \in DOMAIN o |-> << >>]
    /\ select_at = [e \in DOMAIN o |-> 0]
    /\ faults = 0

\* the relays o, and no acceptor
InitProcs(o) ==
    /\ InitRelays(o)
    /\ acc = NoAcceptor

\* a client and the server worker that has its connection
Init ==
    /\ InitProcs([client |-> ClientOpts, server |-> ServerOpts])
    /\ udp_left = [client |-> MaxDatagrams, server |-> MaxReplies]
    /\ wire_left = 0

Spec == Init /\ [][Next]_vars

\* the same two processes when system calls may fail; datagrams arrive at
\* the client only
InitFaults ==
    /\ InitProcs([client |-> ClientOpts, server |-> ServerOpts])
    /\ udp_left = [client |-> MaxDatagrams, server |-> 0]
    /\ wire_left = 0

SpecFaults == InitFaults /\ [][NextFaults]_vars

(***************************************************************************)
(* A relay a whose stream peer is any program.                              *)
(***************************************************************************)
\* the token with its last byte, and with its first byte, changed
BadHandshakeLast == BSet(DefaultHandshake, HandshakeLen - 1, 144)

BadHandshakeFirst == BSet(DefaultHandshake, 0, 85)

WireSegments ==
    { DefaultHandshake, BadHandshakeLast, BadHandshakeFirst,
      htons(0), out_packet(FromSeq(<< 65 >>)), out_packet(MaxPayload),
      Rep(255, LengthLen) }

WireSend(seg) ==
    /\ wire_left > 0
    /\ \A e \in Procs : ~tcp_eof[e]
    /\ wire_left' = wire_left - 1
    /\ tcp_in' = [e \in Procs |->
                    IF pc[e] = "exited" THEN tcp_in[e] ELSE BCat(tcp_in[e], seg)]
    /\ UNCHANGED << relay, pc, exit_status, exit_msg, last_udp_input,
                    last_tcp_input, opts, now, tcp_eof, tcp_tx, tcp_rx,
                    udp_tx, udp_rx, udp_left, faults, select_at, acc >>

\* the peer shuts the stream down
WireClose ==
    /\ \A e \in Procs : ~tcp_eof[e]
    /\ tcp_eof' = [e \in Procs |-> TRUE]
    /\ UNCHANGED << relay, pc, exit_status, exit_msg, last_udp_input,
                    last_tcp_input, opts, now, tcp_in, tcp_tx, tcp_rx,
                    udp_tx, udp_rx, udp_left, faults, wire_left, select_at,
                    acc >>

NextWire ==
    \/ Next
    \/ \E seg \in WireSegments : WireSend(seg)
    \/ WireClose

InitWire ==
    /\ \E o \in {ClientOpts, ServerOpts} : InitProcs([a |-> o])
    /\ udp_left = [a |-> 0]
    /\ wire_left = MaxWire

SpecWire == InitWire /\ [][NextWire]_vars

(***************************************************************************)
(* The tunnel with idle timeouts, and time.                                *)
(*                                                                         *)
(* select() is called at select_at and, when ptv is set, returns with no   *)
(* descriptor ready SelectWait seconds later: time does not pass that      *)
(* moment before the process has made its pass.                            *)
(***************************************************************************)
\* the last second of a run
MaxNow == 21

\* the segments the stream peer of an idle relay sends
MaxIdleWire == 1

\* the values of --timeout: below and above the wait of select
IdleTimeouts == {1, 12}

\* the clock is read every TickStep seconds: select wakes on a tick
TickStep == SelectWait \div 2

\* TickStep seconds pass
Tick ==
    /\ now < MaxNow
    /\ \A e \in Procs :
          pc[e] = "main_loop" /\ HasPtv(P(e)) => now < select_at[e] + SelectWait
    /\ now' = now + TickStep
    /\ UNCHANGED << relay, pc, exit_status, exit_msg, last_udp_input,
                    last_tcp_input, opts, tcp_in, tcp_eof, tcp_tx, tcp_rx,
                    udp_tx, udp_rx, udp_left, faults, wire_left, select_at,
                    acc >>

\* a pass of main_loop in which select returns 0: tv ran out and the stream
\* socket is not readable
MainLoopTimeout(e) ==
    /\ e \in Procs
    /\ pc[e] = "main_loop"
    /\ HasPtv(P(e))
    /\ ~TcpReady(e)
    /\ now >= select_at[e] + SelectWait
    /\ Bump(e, main_loop_pass(P(e), now, "timeout", FALSE, 0, NoFault,
                              FALSE, NoDatagram), 0, 0)

\* what the stream peer of an idle relay sends: the token and a frame
IdleSegments == { DefaultHandshake, out_packet(FromSeq(<< 65 >>)) }

NextIdle ==
    \/ Next
    \/ \E seg \in IdleSegments : WireSend(seg)
    \/ Tick
    \/ \E e \in ProcIds : MainLoopTimeout(e)

\* a client or a server worker started with --timeout
InitIdle ==
    /\ \E o \in {ClientOpts, ServerOpts}, t \in IdleTimeouts :
          InitProcs([a |-> [o EXCEPT !.timeout = t]])
    /\ udp_left = [a |-> MaxReplies]
    /\ wire_left = MaxIdleWire

SpecIdle == InitIdle /\ [][NextIdle]_vars

(***************************************************************************)
(* The server: the acceptor in accept_connections, the workers it forks,   *)
(* and the SIGCHLD handler.                                                *)
(*                                                                         *)
(* accept and fork succeed; select fails only when a signal interrupts it. *)
(* A worker is a process of the relay model: "unborn" until it is forked,  *)
(* then at "main" with the accepted connection as its stream.  It ends     *)
(* when udp_client fails, when the first bytes of its stream are not the   *)
(* token, or when its stream is shut down.                                 *)
(***************************************************************************)
\* the listening sockets tcp_listener returned: one for each address family
NumListeners == 2

\* the connections the acceptor is offered
MaxWorkers == 2

WorkerIds == << "w1", "w2", "w3" >>

procvars == << relay, exit_status, exit_msg, last_udp_input, last_tcp_input,
               opts, now, tcp_in, tcp_eof, tcp_tx, tcp_rx, udp_tx, udp_rx,
               udp_left, faults, wire_left, select_at >>

Born(w) == pc[w] # "unborn"

Ended(w) == pc[w] = "exited"

\* a worker that has ended and that nobody has waited for
Zombie(w) == Ended(w) /\ w \notin acc.reaped

Zombies == { w \in Procs : Zombie(w) }

\* SIGCHLD is pending for the acceptor: a worker has ended since the signal
\* was last delivered (the kernel keeps one pending SIGCHLD, not a count)
SigchldPending == { w \in Procs : Ended(w) } \ acc.signalled # { }

\* network.c line 429: a client connects, and select returns with the
\* listening socket readable
AcceptorSelect ==
    /\ acc.pc = "select"
    /\ ~acc.in_handler
    /\ acc.conns < MaxWorkers
    /\ \E i \in 1..Len(acc.listening_sockets) :
          acc' = [acc EXCEPT !.pc = "accept", !.conns = @ + 1, !.i = i]
    /\ UNCHANGED << pc, procvars >>

\* network.c lines 429-432: select returned -1, errno is read
AcceptorSelectFailed ==
    /\ acc.pc = "select_failed"
    /\ ~acc.in_handler
    /\ acc' = IF acc.errno \in {"EINTR", "EAGAIN"}
              THEN [acc EXCEPT !.pc = "select"]
              ELSE [acc EXCEPT !.pc = "exited", !.exit_status = 1,
                               !.exit_msg = "select", !.listeners = FALSE,
                               !.socks = { }]
    /\ UNCHANGED << pc, procvars >>

\* the descriptor a call that opens one returns: the lowest one not open
\* (0, 1 and 2 are open)
LowestFree(open) == CHOOSE n \in 3..(3 + Cardinality(open)) :
                        n \notin open /\ \A m \in 3..(n - 1) : m \in open

\* network.c lines 450-455: accept on listening_sockets[i], which select
\* reported ready
AcceptorAccept ==
    /\ acc.pc = "accept"
    /\ ~acc.in_handler
    /\ acc' = [acc EXCEPT !.pc = "fork",
                          !.fd = LowestFree(acc.socks),
                          !.socks = @ \cup {LowestFree(acc.socks)}]
    /\ UNCHANGED << pc, procvars >>

\* fork without the close(fd) of the parent
AcceptorFork_parent_keeps_fd ==
    /\ acc.pc = "fork"
    /\ ~acc.in_handler
    /\ pc' = [pc EXCEPT ![WorkerIds[acc.forked + 1]] = "main"]
    /\ acc' = [acc EXCEPT
                 !.pc = "select", !.forked = @ + 1, !.i = 0, !.fd = -1,
                 !.wsocks[WorkerIds[acc.forked + 1]] =
                     acc.socks \ { acc.listening_sockets[k] :
                                     k \in 1..Len(acc.listening_sockets) },
                 !.tcp_sock[WorkerIds[acc.forked + 1]] = acc.fd]
    /\ UNCHANGED procvars

\* network.c lines 471-488: fork; the parent closes the connection and goes
\* round, the child closes the listening sockets and returns to main
AcceptorFork ==
    /\ acc.pc = "fork"
    /\ ~acc.in_handler
    /\ pc' = [pc EXCEPT ![WorkerIds[acc.forked + 1]] = "main"]
    /\ acc' = [acc EXCEPT
                 !.pc = "select", !.forked = @ + 1, !.i = 0, !.fd = -1,
                 !.socks = @ \ {acc.fd},
                 !.wsocks[WorkerIds[acc.forked + 1]] =
                     acc.socks \ { acc.listening_sockets[k] :
                                     k \in 1..Len(acc.listening_sockets) },
                 !.tcp_sock[WorkerIds[acc.forked + 1]] = acc.fd]
    /\ UNCHANGED procvars

\* SIGCHLD is delivered to the acceptor, wherever it is: wait_for_child starts
Sigchld ==
    /\ acc.pc \in {"select", "select_failed", "accept", "fork"}
    /\ ~acc.in_handler
    /\ SigchldPending
    /\ acc' = [acc EXCEPT !.in_handler = TRUE, !.batch = 0,
                          !.signalled = { w \in Procs : Ended(w) }]
    /\ UNCHANGED << pc, procvars >>

wait_for_child_once ==
    /\ acc.in_handler
    /\ \E interrupted \in IF acc.pc = "select" THEN BOOLEAN ELSE {FALSE} :
       \E zs \in IF Zombies = { } THEN {{ }} ELSE { {w} : w \in Zombies } :
          acc' = [acc EXCEPT
                    !.in_handler = FALSE,
                    !.reaped = @ \cup zs,
                    !.batch = 0,
                    !.errno = IF interrupted THEN "EINTR"
                              ELSE IF { w \in Procs : Born(w) } \subseteq acc.reaped
                                   THEN "ECHILD" ELSE @,
                    !.pc = IF interrupted THEN "select_failed" ELSE @]
    /\ UNCHANGED << pc, procvars >>

\* udptunnel.c lines 535-538, one waitpid(-1, NULL, WNOHANG) of the loop: it
\* returns the pid of a worker that has ended (and the loop goes on), 0 when
\* workers run and none has ended, -1 with errno ECHILD when there is no
\* worker; then the handler returns.  A select the signal interrupted
\* returns -1 with errno EINTR after the handler has returned.
wait_for_child ==
    /\ acc.in_handler
    /\ IF Zombies # { }
       THEN \E w \in Zombies :
               acc' = [acc EXCEPT !.reaped = @ \cup {w}, !.batch = @ + 1]
       ELSE \E interrupted \in IF acc.pc = "select" THEN BOOLEAN ELSE {FALSE} :
               acc' = [acc EXCEPT
                         !.in_handler = FALSE,
                         !.batch = 0,
                         !.errno = IF interrupted THEN "EINTR"
                                   ELSE IF { w \in Procs : Born(w) } \subseteq acc.reaped
                                        THEN "ECHILD" ELSE @,
                         !.pc = IF interrupted THEN "select_failed" ELSE @]
    /\ UNCHANGED << pc, procvars >>

\* the stream peer of a worker sends its first bytes, and they are not the
\* token (what it does before the worker is in main_loop is seen there)
ConnSend(w) ==
    /\ w \in Procs
    /\ pc[w] = "main_loop" /\ ~tcp_eof[w]
    /\ tcp_in[w] = << >> /\ tcp_rx[w] = << >>
    /\ tcp_in' = [tcp_in EXCEPT ![w] = BadHandshakeFirst]
    /\ UNCHANGED << relay, pc, exit_status, exit_msg, last_udp_input,
                    last_tcp_input, opts, now, tcp_eof, tcp_tx, tcp_rx,
                    udp_tx, udp_rx, udp_left, faults, wire_left, select_at,
                    acc >>

\* the stream peer of a worker shuts the connection down
ConnClose(w) ==
    /\ w \in Procs
    /\ pc[w] = "main_loop" /\ ~tcp_eof[w]
    /\ tcp_eof' = [tcp_eof EXCEPT ![w] = TRUE]
    /\ UNCHANGED << relay, pc, exit_status, exit_msg, last_udp_input,
                    last_tcp_input, opts, now, tcp_in, tcp_tx, tcp_rx,
                    udp_tx, udp_rx, udp_left, faults, wire_left, select_at,
                    acc >>

NextAccept ==
    \/ AcceptorSelect
    \/ AcceptorSelectFailed
    \/ AcceptorAccept
    \/ AcceptorFork
    \/ Sigchld
    \/ wait_for_child
    \/ \E w \in ProcIds : Start(w, TRUE)
    \/ \E w \in ProcIds : Start(w, FALSE)
    \/ \E w \in ProcIds : MainLoop(w)
    \/ \E w \in ProcIds : ConnSend(w)
    \/ \E w \in ProcIds : ConnClose(w)

\* the server after sigaction and tcp_listener (main, lines 639-662), at the
\* top of accept_connections; no worker yet
InitAccept ==
    LET W == { WorkerIds[i] : i \in 1..MaxWorkers } IN
    /\ opts = [w \in W |-> ServerOpts]
    /\ relay = [w \in W |-> [ZeroRelay EXCEPT !.handshake = ServerOpts.handshake]]
    /\ pc = [w \in W |-> "unborn"]
    /\ exit_status = [w \in W |-> -1]
    /\ exit_msg = [w \in W |-> ""]
    /\ last_udp_input = [w \in W |-> 0]
    /\ last_tcp_input = [w \in W |-> 0]
    /\ now = 1
    /\ tcp_in = [w \in W |-> << >>]
    /\ tcp_eof = [w \in W |-> FALSE]
    /\ tcp_tx = [w \in W |-> << >>]
    /\ tcp_rx = [w \in W |-> << >>]
    /\ udp_tx = [w \in W |-> << >>]
    /\ udp_rx = [w \in W |-> << >>]
    /\ select_at = [w \in W |-> 0]
    /\ udp_left = [w \in W |-> 0]
    /\ faults = 0
    /\ wire_left = 0
    /\ acc = [ pc |-> "select", errno |-> "0", in_handler |-> FALSE,
               batch |-> 0, signalled |-> { }, reaped |-> { },
               conns |-> 0, forked |-> 0, listeners |-> TRUE,
               exit_status |-> -1, exit_msg |-> "",
               listening_sockets |-> [k \in 1..NumListeners |-> 2 + k],
               socks |-> { 2 + k : k \in 1..NumListeners },
               i |-> 0, fd |-> -1,
               wsocks |-> [w \in W |-> { }],
               tcp_sock |-> [w \in W |-> -1] ]

SpecAccept == InitAccept /\ [][NextAccept]_vars

\* a pending SIGCHLD is delivered and the handler runs to its end
SpecAcceptFair ==
    /\ SpecAccept
    /\ WF_vars(Sigchld)
    /\ WF_vars(wait_for_child)

(***************************************************************************)
(* What the tunnel did, read from the logs.                                *)
(***************************************************************************)
Payloads(log) == [i \in 1..Len(log) |-> log[i].data]

IsEmptyData(x) == x.data = << >>

IsNonEmptyData(x) == x.data # << >>

\* the datagrams e received and put on the stream
Forwarded(e) == Payloads(SelectSeq(udp_rx[e], IsNonEmptyData))

\* the payloads the decoder of e handed to send_udp_packet
Handed(e) == Payloads(udp_tx[e])

IsSent(x) == x.result = "sent"

\* the datagrams e emitted
Emitted(e) == Payloads(SelectSeq(udp_tx[e], IsSent))

IsPrefix(a, b) == Len(a) <= Len(b) /\ SubSeq(b, 1, Len(a)) = a

\* the decoder of e has nothing more to do: it is gone, or it has read
\* every byte written to it
Drained(e) == pc[e] = "exited" \/ (pc[e] = "main_loop" /\ tcp_in[e] = << >>)

\* the send() calls of e that carry frames
FrameWrites(e) ==
    IF opts[e].is_server \/ tcp_tx[e] = << >> THEN tcp_tx[e] ELSE Tail(tcp_tx[e])

Tunnel == {"client", "server"}

(***************************************************************************)
(* C1. Roundtrip: once the decoder of the peer has nothing more to read,   *)
(* the payloads it handed to send_udp_packet are exactly the datagrams the *)
(* endpoint received and encoded, in number, bytes and order.              *)
(***************************************************************************)
C1_Roundtrip ==
    \A e \in Tunnel :
        Drained(Peer(e)) => Handed(Peer(e)) = Forwarded(e)

(***************************************************************************)
(* C5. The client writes the 32 handshake bytes exactly once, as its first *)
(* write on the stream and before main_loop; every other write of the      *)
(* client and every write of the server is a frame.                        *)
(***************************************************************************)
IsFrameOf(w, data) == w = out_packet(data)

C5_HandshakeOnce ==
    /\ pc["client"] \in {"main", "connected"} => tcp_tx["client"] = << >>
    /\ pc["client"] = "main_loop" =>
          /\ Len(tcp_tx["client"]) >= 1
          /\ tcp_tx["client"][1] = DefaultHandshake
          /\ BLen(tcp_tx["client"][1]) = HandshakeLen
    /\ \A e \in Tunnel :
          /\ Len(FrameWrites(e)) = Len(Forwarded(e))
          /\ \A i \in 1..Len(FrameWrites(e)) :
                IsFrameOf(FrameWrites(e)[i], Forwarded(e)[i])
    /\ tcp_tx["server"] = FrameWrites("server")

C5_Witness ==
    /\ pc["client"] = "main_loop"
    /\ Len(tcp_tx["client"]) = 3
    /\ Len(tcp_tx["server"]) = 1

(***************************************************************************)
(* C6. FIFO within a direction: the payloads the peer handed over, and so  *)
(* the datagrams it emitted, are an initial part of the datagrams the      *)
(* endpoint forwarded, in the same order.                                  *)
(***************************************************************************)
C6_Fifo ==
    \A e \in Tunnel :
        /\ IsPrefix(Handed(Peer(e)), Forwarded(e))
        /\ udp_tx[Peer(e)] # << >> /\ udp_tx[Peer(e)][1].to # NoAddr
              => Handed(Peer(e)) = Emitted(Peer(e))

C6_Witness ==
    /\ Len(Emitted("server")) >= 2
    /\ Emitted("server")[1] # Emitted("server")[2]
    /\ Len(Handed("client")) >= 1

(***************************************************************************)
(* C7. Maximum-size payload: once the server has nothing more to read,     *)
(* every datagram of UDPBUFFERSIZE bytes the client forwarded has been     *)
(* emitted by the server, byte for byte, at its place in the order.        *)
(***************************************************************************)
C7_MaxPayload ==
    Drained("server") =>
        \A i \in 1..Len(Forwarded("client")) :
            BLen(Forwarded("client")[i]) = UDPBUFFERSIZE =>
                /\ Len(udp_tx["server"]) >= i
                /\ udp_tx["server"][i].data = Forwarded("client")[i]
                /\ udp_tx["server"][i].result = "sent"

(***************************************************************************)
(* C8. As claimed: every datagram received, a zero-byte one included, is   *)
(* put on the stream as a frame, and decoded by the peer.                  *)
(***************************************************************************)
C8_ZeroPayloadForwarded ==
    \A e \in Tunnel :
        /\ Len(FrameWrites(e)) = Len(udp_rx[e])
        /\ Drained(Peer(e)) /\ pc[e] # "exited" /\ exit_msg[Peer(e)] = ""
              => Len(Handed(Peer(e))) = Len(udp_rx[e])

(***************************************************************************)
(* C8, amended. A zero-byte datagram is not encoded: the frames an         *)
(* endpoint puts on the stream are those of the non-empty datagrams it     *)
(* received, and no payload its peer decodes is empty.                     *)
(***************************************************************************)
C8_ZeroPayloadNotEncoded ==
    \A e \in Tunnel :
        /\ FrameWrites(e) = [i \in 1..Len(Forwarded(e)) |-> out_packet(Forwarded(e)[i])]
        /\ \A i \in 1..Len(FrameWrites(e)) : FrameWrites(e)[i] # htons(0)
        /\ \A i \in 1..Len(udp_tx[Peer(e)]) : udp_tx[Peer(e)][i].data # << >>

C8_Witness ==
    /\ Len(udp_rx["client"]) = 2
    /\ IsEmptyData(udp_rx["client"][1])
    /\ IsNonEmptyData(udp_rx["client"][2])
    /\ Len(Handed("server")) = 1
    /\ Drained("server")

(***************************************************************************)
(* C10. A zero-length datagram is dropped silently: the step that receives *)
(* it writes nothing on the stream and leaves the relay in main_loop.      *)
(***************************************************************************)
ReceivedEmpty(e) ==
    /\ Len(udp_rx'[e]) = Len(udp_rx[e]) + 1
    /\ IsEmptyData(udp_rx'[e][Len(udp_rx'[e])])

C10_EmptyDropped ==
    [][\A e \in Tunnel :
          ReceivedEmpty(e) =>
              /\ tcp_tx'[e] = tcp_tx[e]
              /\ tcp_in'[Peer(e)] = tcp_in[Peer(e)]
              /\ pc'[e] = "main_loop"]_vars

C10_Witness ==
    \E e \in Tunnel :
        /\ pc[e] = "main_loop"
        /\ udp_rx[e] # << >>
        /\ IsEmptyData(udp_rx[e][Len(udp_rx[e])])
        /\ FrameWrites(e) = << >>

(***************************************************************************)
(* C2. Incremental decoding.  The bytes a relay has read so far, read      *)
(* again by a relay that starts afresh and takes with every read all that  *)
(* the buffer has room for, give the same payloads and leave the same      *)
(* parser state: so any two ways of splitting the stream agree.            *)
(***************************************************************************)
\* process e as it enters main_loop, with the bytes e has read waiting
FreshProc(e) ==
    [P(e) EXCEPT !.relay = [ZeroRelay EXCEPT !.handshake = opts[e].handshake,
                                             !.expect_handshake = opts[e].is_server,
                                             !.remote_udpaddr = opts[e].udpaddr],
                 !.pc = "main_loop", !.exit_status = -1, !.exit_msg = "",
                 !.inq = tcp_rx[e], !.tcp_rx = << >>, !.udp_tx = << >>]

RECURSIVE GreedyRun(_)
GreedyRun(p) ==
    IF ~Running(p) \/ p.inq = << >> \/ ReadCount(InitParser(p.relay)) = 0 THEN p
    ELSE GreedyRun(tcp_to_udp(p, Min(BLen(p.inq), ReadCount(InitParser(p.relay))),
                              NoFault))

ParserState(r) == << r.state, r.packet_length, r.packet_start, r.buf_ptr, r.buf >>

BadHandshakeMsg == "Received a bad handshake, exiting"

C2_Incremental ==
    \A e \in Procs :
        pc[e] \in {"main_loop", "exited"} =>
            LET g == GreedyRun(FreshProc(e)) IN
            /\ g.inq = << >>
            /\ Payloads(g.udp_tx) = Handed(e)
            /\ pc[e] = "main_loop" =>
                  /\ Running(g)
                  /\ ParserState(InitParser(g.relay)) = ParserState(InitParser(relay[e]))
            /\ (exit_msg[e] = BadHandshakeMsg) <=> (g.exit_msg = BadHandshakeMsg)

\* a payload was decoded and the bytes of the next frame, which came in
\* more than one read, are partly in the buffer
C2_Witness ==
    /\ pc["a"] = "main_loop"
    /\ opts["a"].is_server
    /\ Len(udp_tx["a"]) = 1
    /\ relay["a"].state = "reading_packet"
    /\ relay["a"].buf_ptr > relay["a"].packet_start + LengthLen
    /\ relay["a"].buf_ptr < relay["a"].packet_start + relay["a"].packet_length

(***************************************************************************)
(* C3. Handshake strictness: a relay that expects a handshake and has read *)
(* 32 bytes or more, the first 32 of which are not the token, has ended    *)
(* with the bad-handshake message and status 0, and has sent no datagram.  *)
(***************************************************************************)
C3_HandshakeStrict ==
    \A e \in Procs :
        /\ opts[e].is_server
        /\ BLen(tcp_rx[e]) >= HandshakeLen
        /\ BTake(tcp_rx[e], HandshakeLen) # opts[e].handshake
        => /\ pc[e] = "exited"
           /\ exit_msg[e] = BadHandshakeMsg
           /\ exit_status[e] = 0
           /\ udp_tx[e] = << >>

\* the first 32 bytes differ from the token in the last byte only, and a
\* whole frame followed them
C3_Witness ==
    /\ opts["a"].is_server
    /\ BTake(tcp_rx["a"], HandshakeLen) = BadHandshakeLast
    /\ BLen(tcp_rx["a"]) > HandshakeLen
    /\ exit_msg["a"] = BadHandshakeMsg

(***************************************************************************)
(* C4. On the accepting side no frame is processed before the handshake is *)
(* validated: while the parser has not left the handshake state no         *)
(* datagram was sent, and a relay that handed a payload to                 *)
(* send_udp_packet had read the 32 bytes of the token first.               *)
(***************************************************************************)
C4_HandshakeFirst ==
    \A e \in Procs :
        opts[e].is_server =>
            /\ pc[e] # "exited"
               /\ relay[e].state \in {"uninitialized", "reading_handshake"}
               => udp_tx[e] = << >>
            /\ udp_tx[e] # << >> =>
                  /\ BLen(tcp_rx[e]) >= HandshakeLen + LengthLen
                  /\ BTake(tcp_rx[e], HandshakeLen) = opts[e].handshake

C4_Witness ==
    /\ opts["a"].is_server
    /\ pc["a"] = "main_loop"
    /\ relay["a"].state = "reading_length"
    /\ Len(udp_tx["a"]) = 1
    /\ udp_tx["a"][1].result = "sent"

(***************************************************************************)
(* C9. A frame with length 0 is legal.  A server relay that has read the   *)
(* token and then the two bytes 0 0 has, without any further byte, sent    *)
(* one datagram of no bytes to the configured destination and is back in   *)
(* the length state with an empty buffer; the bytes that follow are parsed *)
(* as the next frame.                                                      *)
(***************************************************************************)
FrameA == out_packet(FromSeq(<< 65 >>))

C9_ZeroLengthFrame ==
    \A e \in Procs :
        LET rx == tcp_rx[e]
            first == HandshakeLen + LengthLen
        IN  /\ opts[e].is_server
            /\ BLen(rx) >= first
            /\ BTake(rx, HandshakeLen) = opts[e].handshake
            /\ BSub(rx, HandshakeLen, LengthLen) = htons(0)
            => /\ Len(udp_tx[e]) >= 1
               /\ udp_tx[e][1] = [to |-> opts[e].udpaddr, data |-> << >>,
                                  result |-> "sent"]
               /\ pc[e] = "main_loop" /\ BLen(rx) = first =>
                     /\ relay[e].state = "reading_length"
                     /\ relay[e].packet_length = LengthLen
                     /\ relay[e].packet_start = 0
                     /\ relay[e].buf_ptr = 0
                     /\ Len(udp_tx[e]) = 1
               /\ pc[e] = "main_loop" /\ BLen(rx) = first + 1 =>
                     /\ relay[e].state = "reading_length"
                     /\ relay[e].buf = BDrop(rx, first)
                     /\ Len(udp_tx[e]) = 1
               /\ BSub(rx, first, BLen(FrameA)) = FrameA =>
                     /\ Len(udp_tx[e]) >= 2
                     /\ udp_tx[e][2].data = FromSeq(<< 65 >>)

C9_Witness ==
    /\ opts["a"].is_server
    /\ pc["a"] = "main_loop"
    /\ tcp_rx["a"] = BCat(BCat(DefaultHandshake, htons(0)), FrameA)
    /\ Len(udp_tx["a"]) = 2
    /\ udp_tx["a"][1].data = << >>
    /\ udp_tx["a"][1].result = "sent"

(***************************************************************************)
(* C11. No-peer drop.  A relay whose remote_udpaddr is unset (a client     *)
(* that has received no datagram) sends no datagram for the frames it      *)
(* decodes and does not end because of them: each is logged as dropped,    *)
(* its bytes leave the buffer, and the frames after it are decoded.        *)
(***************************************************************************)
RemoteClosedMsg == "Remote closed the connection"

IsDropped(x) == x.to = NoAddr /\ x.result = "nopeer"

C11_NoPeerDrop ==
    \A e \in Procs :
        ~opts[e].is_server /\ udp_rx[e] = << >> =>
            /\ \A i \in 1..Len(udp_tx[e]) : IsDropped(udp_tx[e][i])
            /\ Emitted(e) = << >>
            /\ pc[e] = "exited" =>
                  exit_status[e] = 0 /\ exit_msg[e] = RemoteClosedMsg
            /\ BTake(tcp_rx[e], 2 * BLen(FrameA)) = BCat(FrameA, FrameA) =>
                  /\ Len(udp_tx[e]) >= 2
                  /\ udp_tx[e][1].data = FromSeq(<< 65 >>)
                  /\ udp_tx[e][2].data = FromSeq(<< 65 >>)
                  /\ pc[e] = "main_loop" /\ BLen(tcp_rx[e]) = 2 * BLen(FrameA) =>
                        /\ relay[e].state = "reading_length"
                        /\ relay[e].buf_ptr = 0
                        /\ relay[e].packet_start = 0

C11_Witness ==
    /\ ~opts["a"].is_server
    /\ pc["a"] = "main_loop"
    /\ tcp_rx["a"] = BCat(BCat(FrameA, htons(0)), FrameA)
    /\ Len(udp_tx["a"]) = 3
    /\ \A i \in 1..3 : IsDropped(udp_tx["a"][i])

(***************************************************************************)
(* C14. Stream closed.  A relay in main_loop whose peer has shut the       *)
(* stream down and that has read all the bytes of it ends with its next    *)
(* read: status 0, the message of the closed stream, in whatever state the *)
(* parser is, and what it holds of an unfinished frame is not sent.        *)
(***************************************************************************)
AtEndOfStream(e) == pc[e] = "main_loop" /\ tcp_eof[e] /\ tcp_in[e] = << >>

C14_StreamClosed ==
    [][\A e \in Procs :
          AtEndOfStream(e) =>
              /\ pc'[e] = "exited"
              /\ exit_status'[e] = 0
              /\ exit_msg'[e] = RemoteClosedMsg
              /\ udp_tx'[e] = udp_tx[e]]_vars

\* the server read the token and the length of a frame, not its payload
C14_Witness ==
    /\ opts["a"].is_server
    /\ tcp_eof["a"]
    /\ tcp_rx["a"] = BCat(DefaultHandshake, Rep(255, LengthLen))
    /\ pc["a"] = "exited"
    /\ exit_status["a"] = 0
    /\ exit_msg["a"] = RemoteClosedMsg
    /\ udp_tx["a"] = << >>

(***************************************************************************)
(* C18. As claimed: the server sends every decoded frame to the            *)
(* destination it was configured with, whatever datagrams it received.     *)
(***************************************************************************)
C18_ServerPeerFixed ==
    \A i \in 1..Len(udp_tx["server"]) :
        udp_tx["server"][i].to = opts["server"].udpaddr

(***************************************************************************)
(* C18, amended.  In both roles remote_udpaddr is the sender of the last   *)
(* datagram of one byte or more that the relay received, and before the    *)
(* first one the address main gave it (the configured destination on the   *)
(* server, none on the client); a decoded frame goes to the address that   *)
(* remote_udpaddr holds when it is decoded.                                *)
(***************************************************************************)
LastSender(e, log) ==
    LET s == SelectSeq(log, IsNonEmptyData)
    IN  IF s = << >> THEN opts[e].udpaddr ELSE s[Len(s)].from

C18_PeerIsLastSender ==
    [][\A e \in Tunnel :
          /\ pc'[e] = "main_loop" =>
                relay'[e].remote_udpaddr = LastSender(e, udp_rx'[e])
          /\ \A i \in (Len(udp_tx[e]) + 1)..Len(udp_tx'[e]) :
                udp_tx'[e][i].to = relay[e].remote_udpaddr]_vars

\* a frame decoded by the server went to a sender that is not the
\* configured destination
C18_Witness ==
    /\ pc["server"] = "main_loop"
    /\ \E i \in 1..Len(udp_tx["server"]) :
          /\ udp_tx["server"][i].to = "appB"
          /\ udp_tx["server"][i].result = "sent"
    /\ opts["server"].udpaddr = "dest"

(***************************************************************************)
(* C12. Refusal tolerance.  A pass of main_loop in which sendto fails with *)
(* ECONNREFUSED and getsockopt succeeds leaves the relay in main_loop; the *)
(* other frames of the same read are sent, and what the relay handed to    *)
(* send_udp_packet stays the initial part of what its peer forwarded: the  *)
(* frames after the refused one are decoded and sent as usual.             *)
(***************************************************************************)
GetsockoptMsg == "getsockopt(udp, SOL_SOCKET, SO_ERROR)"

\* the entries this step added to e's send_udp_packet log
NewSends(e) == (Len(udp_tx[e]) + 1)..Len(udp_tx'[e])

C12_RefusalTolerated ==
    [][\A e \in Tunnel :
          \A i \in NewSends(e) :
              udp_tx'[e][i].result = "refused" /\ exit_msg'[e] # GetsockoptMsg =>
                  /\ pc'[e] = "main_loop"
                  /\ exit_status'[e] = -1
                  /\ \A j \in NewSends(e) \ {i} : udp_tx'[e][j].result = "sent"
                  /\ IsPrefix(Handed(e)', Forwarded(Peer(e))')
                  /\ tcp_in'[e] = << >> =>
                        Len(Handed(e)') = Len(FrameWrites(Peer(e))')]_vars

\* a refused datagram, then one that was sent, and the relay runs
C12_Witness ==
    /\ pc["server"] = "main_loop"
    /\ Len(udp_tx["server"]) = 2
    /\ udp_tx["server"][1].result = "refused"
    /\ udp_tx["server"][2].result = "sent"
    /\ udp_tx["server"][2].to = "dest"
    /\ Handed("server") = Forwarded("client")

(***************************************************************************)
(* C13. Fatal failures.  A step in which a system call fails ends the      *)
(* process that made it with status 1 and the name of the call, unless the *)
(* call is a sendto refused with ECONNREFUSED; a sendto that fails         *)
(* otherwise always ends it; and a process that has ended sends nothing    *)
(* more, neither datagrams nor stream bytes.                               *)
(***************************************************************************)
FatalMsgs ==
    { "recvfrom(udp)", "send(tcp)", "sendto(udp)", GetsockoptMsg, "read(tcp)",
      "select", "socket", "Cannot connect", "sendto(tcp, handshake)" }

EndedFatally(e) ==
    /\ pc'[e] = "exited"
    /\ exit_status'[e] = 1
    /\ exit_msg'[e] \in FatalMsgs

OnlyRefused(e) ==
    /\ \E i \in NewSends(e) : udp_tx'[e][i].result = "refused"
    /\ \A i \in NewSends(e) : udp_tx'[e][i].result # "error"
    /\ pc'[e] = "main_loop"

UdpTimeoutMsg == "Exiting after a timeout for UDP input"

TcpTimeoutMsg == "Exiting after a timeout for TCP input"

\* the last pass of e was one in which select returned 0, and e went on
SurvivedTimeoutPass(e) ==
    /\ pc[e] = "main_loop"
    /\ select_at[e] = now
    /\ last_udp_input[e] < now
    /\ last_tcp_input[e] < now

\* C17: the timeout of the command line is the stream timeout of a server
\* and the datagram timeout of a client; the timer of the other direction
\* is never armed (its last-input time stays 0) and the relay never ends
\* with the timeout message of that direction.
C17_OneTimerPerRole ==
    \A e \in Procs :
       IF opts[e].is_server
       THEN /\ relay[e].udp_timeout = 0
            /\ last_udp_input[e] = 0
            /\ exit_msg[e] # UdpTimeoutMsg
       ELSE /\ relay[e].tcp_timeout = 0
            /\ last_tcp_input[e] = 0
            /\ exit_msg[e] # TcpTimeoutMsg

\* a server that no datagram has reached since it started, for longer than
\* its timeout, has come through a select that returned 0 and goes on
C17_Witness ==
    \E e \in Procs :
       /\ opts[e].is_server
       /\ SurvivedTimeoutPass(e)
       /\ udp_left[e] = MaxReplies
       /\ now - 1 > opts[e].timeout

\* the seconds for which the direction whose timer is armed has had no input
\* (0 when no timer is armed)
IdleFor(e) ==
    IF last_udp_input[e] # 0 THEN now - last_udp_input[e]
    ELSE IF last_tcp_input[e] # 0 THEN now - last_tcp_input[e]
    ELSE 0

\* C15: a relay with a timeout of N seconds whose timed direction has had
\* no input for more than N seconds ends, whatever the other direction
\* does; with the deadlines looked at every SelectWait seconds, no relay is
\* still running when that direction has been silent for more than
\* N + SelectWait seconds.
C15_IdleRelayExits ==
    \A e \in Procs :
       pc[e] = "main_loop" => IdleFor(e) <= opts[e].timeout + SelectWait

\* a client started with --timeout 1 that no datagram and no stream data
\* have reached
QuietClient(e) ==
    /\ ~opts[e].is_server
    /\ opts[e].timeout = 1
    /\ udp_left[e] = MaxReplies
    /\ tcp_rx[e] = << >>
    /\ tcp_in[e] = << >>

\* C16 as stated: such a client is no longer running 2 seconds after its
\* main_loop started (it calls select once, when main_loop starts).
C16_ExitsWithinTwoSeconds ==
    \A e \in Procs :
       QuietClient(e) /\ pc[e] = "main_loop" => now < select_at[e] + 2

\* C16: such a client ends when its first select returns, SelectWait
\* seconds after its main_loop started, and not before: while it runs it is
\* in the select it called when main_loop started and no more than
\* SelectWait seconds have passed, and once it has ended it has
\* ended with status 0 and the notice of the datagram timeout, SelectWait
\* seconds or more after the start of main_loop.
C16_ExitsAtFirstSelectReturn ==
    \A e \in Procs :
       QuietClient(e) =>
          /\ pc[e] = "main_loop" =>
                /\ select_at[e] = last_udp_input[e]
                /\ now <= select_at[e] + SelectWait
          /\ pc[e] = "exited" =>
                /\ exit_status[e] = 0
                /\ exit_msg[e] = UdpTimeoutMsg
                /\ now >= select_at[e] + SelectWait

\* the client has just ended, SelectWait seconds after main_loop started
C16_Witness ==
    \E e \in Procs :
       /\ QuietClient(e)
       /\ pc[e] = "exited"
       /\ exit_msg[e] = UdpTimeoutMsg
       /\ now = select_at[e] + SelectWait

(***************************************************************************)
(* The acceptor and its workers.                                           *)
(***************************************************************************)
\* C20: whatever ends a worker, the acceptor stays in its accept loop with
\* its listening sockets open (no call of the acceptor fails here other
\* than a select that a signal interrupts).
C20_AcceptorSurvives == acc.pc # "exited" /\ acc.listeners

\* C19: every worker that has ended is waited for by the acceptor in the
\* end, also when several end while one SIGCHLD is pending; and the handler
\* never waits: whenever it runs, its waitpid returns.
C19_WorkersReaped ==
    /\ \A i \in 1..MaxWorkers :
          Zombie(WorkerIds[i]) ~> (WorkerIds[i] \in acc.reaped)
    /\ [](acc.in_handler => ENABLED wait_for_child)

\* the handler, in one run, has waited for two workers, and no worker that
\* has ended is left
C19_Witness ==
    /\ acc.in_handler
    /\ acc.batch >= 2
    /\ Zombies = { }
    /\ \A w \in Procs : Ended(w)

(***************************************************************************)
(* The parse buffer.                                                       *)
(***************************************************************************)
\* C25: for every byte sequence and every chunking, packet_start and
\* buf_ptr stay inside the buffer, 0 <= packet_start <= buf_ptr <=
\* TCPBUFFERSIZE, and the bytes the reads have deposited are buf_ptr bytes:
\* no read deposits more than the room above buf_ptr.
C25_BufferBound ==
    \A e \in Procs :
        /\ 0 <= relay[e].packet_start
        /\ relay[e].packet_start <= relay[e].buf_ptr
        /\ relay[e].buf_ptr <= TCPBUFFERSIZE
        /\ BLen(relay[e].buf) = relay[e].buf_ptr

\* the buffer is full to its last byte behind a handshake that was parsed
C25_Witness ==
    \E e \in Procs :
        /\ pc[e] = "main_loop"
        /\ relay[e].buf_ptr = TCPBUFFERSIZE
        /\ relay[e].packet_start > 0

\* C26: whenever the parser is reading a payload, the length it waits for
\* is at most UDPBUFFERSIZE = 65534, whatever bytes the peer sent.
C26_PayloadLengthBound ==
    \A e \in Procs :
        relay[e].state = "reading_packet" => relay[e].packet_length <= UDPBUFFERSIZE

\* C27: when the buffer is full to its end behind bytes that were already
\* parsed, the parser can go on: either the thing it is reading is complete,
\* or the next read is given room for at least one byte.
C27_FullBufferCanProceed ==
    \A e \in Procs :
        ( /\ pc[e] = "main_loop"
          /\ relay[e].state # "uninitialized"
          /\ relay[e].packet_start > 0
          /\ Need(relay[e]) > 0 )
        => ReadCount(relay[e]) > 0

\* C28: with no failing call and no timeout configured, a relay ends only
\* because its peer shut the stream down or sent a wrong handshake, and it
\* reports the end of the stream only when the peer had shut it down.
C28_ClosedOnlyWhenPeerClosed ==
    \A e \in Procs :
        pc[e] = "exited" =>
            /\ tcp_eof[e] \/ exit_msg[e] = BadHandshakeMsg
            /\ exit_msg[e] = RemoteClosedMsg => tcp_eof[e]

(***************************************************************************)
(* C30. Latest-sender reply.  A pass of main_loop that receives a datagram *)
(* of one byte or more leaves its sender in remote_udpaddr; any other pass *)
(* leaves remote_udpaddr as it was; and once such a datagram was received, *)
(* every frame decoded in a pass is sent to the sender of the last one     *)
(* received before that pass.                                              *)
(***************************************************************************)
C30_LatestSenderReply ==
    [][\A e \in Tunnel :
          (pc[e] = "main_loop" /\ pc'[e] = "main_loop") =>
             LET got == SelectSeq(SubSeq(udp_rx'[e], Len(udp_rx[e]) + 1,
                                         Len(udp_rx'[e])), IsNonEmptyData)
             IN  /\ relay'[e].remote_udpaddr =
                       IF got = << >> THEN relay[e].remote_udpaddr
                       ELSE got[Len(got)].from
                 /\ SelectSeq(udp_rx[e], IsNonEmptyData) # << >> =>
                       \A i \in (Len(udp_tx[e]) + 1)..Len(udp_tx'[e]) :
                           udp_tx'[e][i].to = LastSender(e, udp_rx[e])]_vars

\* the client received datagrams from two senders, then one of no bytes
\* from the first, and sent the frame it decoded to the second sender
C30_Witness ==
    /\ pc["client"] = "main_loop"
    /\ \E i, j \in 1..Len(udp_rx["client"]) :
          /\ i < j
          /\ udp_rx["client"][i].from = "appB" /\ udp_rx["client"][i].data # << >>
          /\ udp_rx["client"][j].from = "appA" /\ udp_rx["client"][j].data = << >>
    /\ \E i \in 1..Len(udp_tx["client"]) :
          udp_tx["client"][i].to = "appB" /\ udp_tx["client"][i].result = "sent"

(***************************************************************************)
(* A relay with no timeout, and one whose timeout is the wait of select.   *)
(***************************************************************************)
\* the values of --timeout: none, and the 10 seconds of tv
EdgeTimeouts == {0, SelectWait}

InitIdleEdge ==
    /\ \E o \in {ClientOpts, ServerOpts}, t \in EdgeTimeouts :
          InitProcs([a |-> [o EXCEPT !.timeout = t]])
    /\ udp_left = [a |-> MaxReplies]
    /\ wire_left = MaxIdleWire

SpecIdleEdge == InitIdleEdge /\ [][NextIdle]_vars

TimeoutMsgs == {UdpTimeoutMsg, TcpTimeoutMsg}

\* C29: a relay ends with a timeout notice only in a pass whose select
\* returned after its full wait with nothing read from either socket, and
\* only when the direction of the notice has its timer armed and more than
\* its timeout has passed since its last input; while a timer is armed no
\* select lasts longer than SelectWait seconds; and a relay started
\* without a timeout arms no timer and never ends with a timeout notice.
C29_IdleExitOnlyOnWakeup ==
    [][\A e \in Procs :
          /\ (pc[e] = "main_loop" /\ exit_msg'[e] \in TimeoutMsgs) =>
                /\ now >= select_at[e] + SelectWait
                /\ tcp_rx'[e] = tcp_rx[e] /\ udp_rx'[e] = udp_rx[e]
                /\ exit_msg'[e] = UdpTimeoutMsg =>
                      /\ last_udp_input[e] # 0
                      /\ now - last_udp_input[e] > relay[e].udp_timeout
                /\ exit_msg'[e] = TcpTimeoutMsg =>
                      /\ last_tcp_input[e] # 0
                      /\ now - last_tcp_input[e] > relay[e].tcp_timeout
          /\ (pc'[e] = "main_loop" /\ HasPtv(P(e))') =>
                now' <= select_at'[e] + SelectWait
          /\ opts[e].timeout = 0 =>
                /\ exit_msg'[e] \notin TimeoutMsgs
                /\ pc'[e] = "main_loop" => ~HasPtv(P(e))']_vars

\* a relay with timeout 10 went on after a select that returned 0 exactly
\* 10 seconds after its last input, and ended at the next such return
C29_Witness ==
    \E e \in Procs :
        /\ opts[e].timeout = SelectWait
        /\ pc[e] = "exited"
        /\ exit_msg[e] \in TimeoutMsgs
        /\ tcp_rx[e] = << >> /\ udp_rx[e] = << >>
        /\ now = select_at[e] + SelectWait
        /\ select_at[e] > SelectWait

\* a relay with no timeout is in one select for longer than SelectWait
C29_WitnessUnbounded ==
    \E e \in Procs :
        /\ opts[e].timeout = 0
        /\ pc[e] = "main_loop"
        /\ now > select_at[e] + SelectWait

(***************************************************************************)
(* parse_address_port (network.c).                                         *)
(*                                                                         *)
(* A C string is the sequence of its characters before the NUL; a pointer  *)
(* into it is an index, 0 for NULL.  A char * result is Null or            *)
(* strdup(s) = << s >>, so that "" and NULL differ.                        *)
(***************************************************************************)
\* a digit, a letter and the three characters the parser looks for
Alphabet == {"1", "a", ":", "[", "]"}

MaxAddrLen == 5

AddrStrings == UNION { [1..n -> Alphabet] : n \in 0..MaxAddrLen }

Null == << >>

strdup(s) == << s >>

\* strchr(s + from - 1, c): the first index >= from that holds c, 0 if none
strchr(s, from, c) ==
    LET I == { i \in from..Len(s) : s[i] = c }
    IN  IF I = { } THEN 0 ELSE CHOOSE i \in I : \A j \in I : i <= j

isdigit(c) == c \in {"0", "1", "2", "3", "4", "5", "6", "7", "8", "9"}

\* the tail of s from index from on
StrFrom(s, from) == SubSeq(s, from, Len(s))

\* parse_address_port that looks for two colons before it looks for '['
parse_address_port_colons_first(input) ==
    LET c == strchr(input, 1, ":") IN
    IF input = << >> THEN [address |-> Null, port |-> Null]
    ELSE IF c # 0 /\ strchr(input, c + 1, ":") # 0
    THEN [address |-> strdup(input), port |-> Null]
    ELSE IF input[1] = "[" /\ strchr(input, 1, "]") # 0
    THEN LET p == strchr(input, 1, "]")
             q == strchr(input, p, ":")
         IN  [address |-> strdup(SubSeq(input, 2, p - 1)),
              port |-> IF q # 0 /\ q < Len(input)
                       THEN strdup(StrFrom(input, q + 1)) ELSE Null]
    ELSE IF c # 0
    THEN [address |-> IF c - 1 # 0 THEN strdup(SubSeq(input, 1, c - 1)) ELSE Null,
          port |-> IF c < Len(input) THEN strdup(StrFrom(input, c + 1)) ELSE Null]
    ELSE IF \E i \in 1..Len(input) : ~isdigit(input[i])
    THEN [address |-> strdup(input), port |-> Null]
    ELSE [address |-> Null, port |-> strdup(input)]

\* lines 122-184; the branches in the order of the code
parse_address_port(input) ==
    LET c == strchr(input, 1, ":") IN
    IF input = << >> THEN [address |-> Null, port |-> Null]
    ELSE IF input[1] = "[" /\ strchr(input, 1, "]") # 0
    THEN LET p == strchr(input, 1, "]")
             q == strchr(input, p, ":")
         IN  [address |-> strdup(SubSeq(input, 2, p - 1)),
              port |-> IF q # 0 /\ q < Len(input)
                       THEN strdup(StrFrom(input, q + 1)) ELSE Null]
    ELSE IF c # 0 /\ strchr(input, c + 1, ":") # 0
    THEN [address |-> strdup(input), port |-> Null]
    ELSE IF c # 0
    THEN [address |-> IF c - 1 # 0 THEN strdup(SubSeq(input, 1, c - 1)) ELSE Null,
          port |-> IF c < Len(input) THEN strdup(StrFrom(input, c + 1)) ELSE Null]
    ELSE IF \E i \in 1..Len(input) : ~isdigit(input[i])
    THEN [address |-> strdup(input), port |-> Null]
    ELSE [address |-> Null, port |-> strdup(input)]

\* a caller hands the string acc.input to parse_address_port
ParseAddressPort ==
    /\ acc.pc = "parse_address_port"
    /\ acc' = [pc |-> "parsed", input |-> acc.input,
               address |-> parse_address_port(acc.input).address,
               port |-> parse_address_port(acc.input).port]
    /\ UNCHANGED << pc, procvars >>

InitParse ==
    /\ InitRelays(<< >>)
    /\ udp_left = << >>
    /\ wire_left = 0
    /\ \E s \in AddrStrings :
          acc = [pc |-> "parse_address_port", input |-> s,
                 address |-> Null, port |-> Null]

SpecParse == InitParse /\ [][ParseAddressPort]_vars

Colons(s) == { i \in 1..Len(s) : s[i] = ":" }

\* s starts with '[' and has a ']'
Bracketed(s) == s # << >> /\ s[1] = "[" /\ \E i \in 1..Len(s) : s[i] = "]"

\* s has neither '[' nor ']'
Bracketless(s) == \A i \in 1..Len(s) : s[i] \notin {"[", "]"}

AllDigits(s) == s # << >> /\ \A i \in 1..Len(s) : isdigit(s[i])

\* s is u ':' v with no colon in u: the result is u and v, each absent
\* when empty
SplitAtColon(s, r) ==
    \E i \in 1..Len(s) :
        /\ s[i] = ":" /\ \A j \in 1..(i - 1) : s[j] # ":"
        /\ r.address = IF i = 1 THEN Null ELSE << SubSeq(s, 1, i - 1) >>
        /\ r.port = IF i = Len(s) THEN Null ELSE << SubSeq(s, i + 1, Len(s)) >>

\* s is '[' h ']' ':' p, no ']' in h, p not empty
BracketForm(s) ==
    \E i \in 2..(Len(s) - 2) :
        /\ s[1] = "[" /\ s[i] = "]" /\ s[i + 1] = ":"
        /\ \A j \in 2..(i - 1) : s[j] # "]"

(***************************************************************************)
(* C23 as stated.  '[h]:p' gives h and p; a bracketless string with two    *)
(* colons or more gives itself as host and no port; any other string with  *)
(* exactly one colon gives the part before it as host and the part after   *)
(* it as port, each absent when empty; an all-digit string gives a port    *)
(* and no host; any other colon-free string gives a host and no port.      *)
(***************************************************************************)
C23_GrammarAsStated ==
    acc.pc = "parsed" =>
      LET s == acc.input
          r == [address |-> acc.address, port |-> acc.port]
      IN  /\ BracketForm(s) =>
                \E i \in 2..(Len(s) - 2) :
                    /\ s[i] = "]" /\ \A j \in 2..(i - 1) : s[j] # "]"
                    /\ r.address = << SubSeq(s, 2, i - 1) >>
                    /\ r.port = << SubSeq(s, i + 2, Len(s)) >>
          /\ (Bracketless(s) /\ Cardinality(Colons(s)) >= 2) =>
                r = [address |-> << s >>, port |-> Null]
          /\ (Cardinality(Colons(s)) = 1 /\ ~BracketForm(s)) => SplitAtColon(s, r)
          /\ AllDigits(s) => r = [address |-> Null, port |-> << s >>]
          /\ (s # << >> /\ Colons(s) = { } /\ ~AllDigits(s)) =>
                r.address # Null /\ r.port = Null

(***************************************************************************)
(* C23, amended.  The empty string gives neither part.  A string that      *)
(* starts with '[' and has a ']' gives what stands between the '[' and the *)
(* first ']' as host, and as port what follows the first colon after that  *)
(* ']', absent when there is no such colon or nothing follows it.  Any     *)
(* other string: with two colons or more it is the host and there is no    *)
(* port; with one colon the part before it is the host and the part after  *)
(* it the port, each absent when empty; with no colon it is the port when  *)
(* all its characters are digits and the host otherwise.                   *)
(***************************************************************************)
C23_Grammar ==
    acc.pc = "parsed" =>
      LET s == acc.input
          r == [address |-> acc.address, port |-> acc.port]
      IN  /\ s = << >> => r = [address |-> Null, port |-> Null]
          /\ Bracketed(s) =>
                \E i \in 2..Len(s) :
                    /\ s[i] = "]" /\ \A j \in 2..(i - 1) : s[j] # "]"
                    /\ r.address = << SubSeq(s, 2, i - 1) >>
                    /\ LET t == SubSeq(s, i + 1, Len(s))
                       IN  IF Colons(t) = { } THEN r.port = Null
                           ELSE \E k \in Colons(t) :
                                   /\ \A j \in Colons(t) : k <= j
                                   /\ r.port = IF k = Len(t) THEN Null
                                               ELSE << SubSeq(t, k + 1, Len(t)) >>
          /\ (~Bracketed(s) /\ Cardinality(Colons(s)) >= 2) =>
                r = [address |-> << s >>, port |-> Null]
          /\ (~Bracketed(s) /\ Cardinality(Colons(s)) = 1) => SplitAtColon(s, r)
          /\ (~Bracketed(s) /\ AllDigits(s)) => r = [address |-> Null, port |-> << s >>]
          /\ (~Bracketed(s) /\ s # << >> /\ Colons(s) = { } /\ ~AllDigits(s)) =>
                r = [address |-> << s >>, port |-> Null]

\* "[a:1]" was parsed: the host is a:1 and there is no port
C23_Witness ==
    /\ acc.pc = "parsed"
    /\ acc.input = << "[", "a", ":", "1", "]" >>
    /\ acc.address = << << "a", ":", "1" >> >>
    /\ acc.port = Null

(***************************************************************************)
(* Descriptors across fork.                                                *)
(***************************************************************************)
Listeners == { acc.listening_sockets[k] : k \in 1..Len(acc.listening_sockets) }

\* C21: whenever the acceptor is at its select, after any number of
\* connections accepted on any listening socket, it holds every listening
\* socket and nothing else; between accept and fork it holds the one
\* accepted socket besides; and every worker holds the socket accept
\* returned for its connection, which accept_connections returned to it,
\* and no listening socket.
C21_DescriptorOwnership ==
    /\ acc.pc \in {"select", "select_failed"} => acc.socks = Listeners
    /\ acc.pc \in {"accept", "fork"} => Listeners \subseteq acc.socks
    /\ acc.pc = "fork" => acc.socks = Listeners \cup {acc.fd} /\ acc.fd \notin Listeners
    /\ \A w \in Procs :
          Born(w) => /\ acc.wsocks[w] = {acc.tcp_sock[w]}
                     /\ acc.wsocks[w] \cap Listeners = { }

\* two workers were forked, each holds a socket, and the acceptor is at
\* its select again with its listening sockets only
C21_Witness ==
    /\ acc.pc = "select"
    /\ acc.forked >= 2
    /\ \A w \in Procs : Born(w) /\ acc.wsocks[w] # { }
    /\ acc.socks = Listeners

(***************************************************************************)
(* The start of the process: main up to the relay loop or the accept loop. *)
(*                                                                         *)
(* acc is the process.  acc.env holds what its environment will do: the    *)
(* role and options, the count sd_listen_fds returns and whether each      *)
(* passed descriptor is a socket of the right kind, what getaddrinfo       *)
(* returns, and for each address of its list the call that fails.          *)
(***************************************************************************)
MaxAddrs == 3

\* the sockets a supervisor passes
MaxPassed == 2

\* what happens to one address of the list of getaddrinfo: every call
\* succeeds, or the named call fails (IPV6_V6ONLY: on an AF_INET6 address)
AddrOutcomes == {"ok", "socket", "IPV6_V6ONLY", "SO_REUSEADDR", "bind", "listen"}

\* the first descriptor a supervisor passes
SD_LISTEN_FDS_START == 3

\* the -T arguments: a port, a host with a port, a host without a port
ListenAddrs == { << "1" >>, << "a", ":", "1" >>, << "a" >> }

\* udptunnel.c lines 329-345
tcp_listener_sa(num, valid) ==
    IF \E k \in 1..num : ~valid[k]
    THEN [pc |-> "exited", exit_status |-> 2,
          exit_msg |-> "TCP socket activation fd is not valid.", fd_list |-> << >>]
    ELSE [pc |-> "accept_connections", exit_status |-> -1, exit_msg |-> "",
          fd_list |-> [k \in 1..num |-> SD_LISTEN_FDS_START + k - 1]]

\* network.c lines 320-355, the loop over the addresses from the k-th on.
\* st.fd_list holds the fd_num descriptors stored so far; st.null tells
\* that the pointer fd_list is NULL; st.err is the message of err_sys.
RECURSIVE ListenLoop(_, _, _)
ListenLoop(addrs, k, st) ==
    IF k > Len(addrs) THEN st
    ELSE IF addrs[k] = "socket" THEN ListenLoop(addrs, k + 1, st)
    ELSE IF addrs[k] = "IPV6_V6ONLY"
         THEN [st EXCEPT !.err = "setsockopt(IPPROTO_IPV6, IPV6_V6ONLY)"]
    ELSE IF addrs[k] = "SO_REUSEADDR"
         THEN [st EXCEPT !.err = "setsockopt(SOL_SOCKET, SO_REUSEADDR)"]
    ELSE IF addrs[k] = "bind" THEN [st EXCEPT !.err = "Cannot bind"]
    ELSE IF addrs[k] = "listen" THEN [st EXCEPT !.err = "listen"]
    ELSE ListenLoop(addrs, k + 1,
            [st EXCEPT !.allocated_fds = IF @ < st.fd_num + 1 + 1 THEN @ + 8 ELSE @,
                       !.null = FALSE,
                       !.fd_list = Append(@, SD_LISTEN_FDS_START + st.fd_num),
                       !.fd_num = @ + 1])

\* network.c lines 272-377.  The result is the list without its -1.
tcp_listener(s, gai, addrs) ==
    IF parse_address_port(s).port = Null
    THEN [pc |-> "exited", exit_status |-> 2, exit_msg |-> "Missing port",
          fd_list |-> << >>]
    ELSE IF gai = "EAI_SYSTEM"
    THEN [pc |-> "exited", exit_status |-> 1, exit_msg |-> "getaddrinfo",
          fd_list |-> << >>]
    ELSE IF gai # "ok"
    THEN [pc |-> "exited", exit_status |-> 1, exit_msg |-> "Cannot resolve",
          fd_list |-> << >>]
    ELSE LET st == ListenLoop(addrs, 1, [fd_num |-> 0, allocated_fds |-> 0,
                                         fd_list |-> << >>, null |-> TRUE,
                                         err |-> ""])
             \* lines 362-364: room for the -1, and the -1
             null == IF st.allocated_fds < st.fd_num + 1 + 1 THEN FALSE ELSE st.null
         IN  IF st.err # ""
             THEN [pc |-> "exited", exit_status |-> 1, exit_msg |-> st.err,
                   fd_list |-> << >>]
             ELSE IF null      \* line 370
             THEN [pc |-> "exited", exit_status |-> 1, exit_msg |-> "socket",
                   fd_list |-> << >>]
             ELSE [pc |-> "accept_connections", exit_status |-> -1,
                   exit_msg |-> "", fd_list |-> st.fd_list]

\* udptunnel.c line 636
SdNotify ==
    /\ acc.pc = "main"
    /\ acc' = [acc EXCEPT !.pc = "role", !.notified = TRUE]
    /\ UNCHANGED << pc, procvars >>

\* udptunnel.c lines 638-661, server: the listening sockets
ServerListen ==
    /\ acc.pc = "role"
    /\ acc.env.is_server /\ ~acc.env.use_inetd
    /\ LET r == IF acc.env.sd_listen_fds # 0
                THEN tcp_listener_sa(acc.env.sd_listen_fds, acc.env.valid)
                ELSE tcp_listener(acc.env.tcpaddr, acc.env.gai, acc.env.addrs)
       IN  acc' = [acc EXCEPT !.pc = r.pc, !.exit_status = r.exit_status,
                              !.exit_msg = r.exit_msg,
                              !.listening_sockets = r.fd_list]
    /\ UNCHANGED << pc, procvars >>

\* network.c lines 397-429: the acceptor enters its loop and waits in
\* select(max, &readfds, NULL, NULL, NULL) for a connection on one of
\* listening_sockets
AcceptConnections ==
    /\ acc.pc = "accept_connections"
    /\ acc' = [acc EXCEPT !.pc = "select"]
    /\ UNCHANGED << pc, procvars >>

\* udptunnel.c lines 651-653, 669: the server under inetd has its
\* connection on descriptor 0 and goes on to udp_client
ServerInetd ==
    /\ acc.pc = "role"
    /\ acc.env.is_server /\ acc.env.use_inetd
    /\ acc' = [acc EXCEPT !.pc = "udp_client", !.tcp_sock = 0]
    /\ UNCHANGED << pc, procvars >>

\* udptunnel.c line 669: udp_client
UdpClient ==
    /\ acc.pc = "udp_client"
    /\ acc' = IF acc.env.udp_ok
              THEN [acc EXCEPT !.pc = "main_loop", !.udp_sock = 3]
              ELSE [acc EXCEPT !.pc = "exited", !.exit_status = 1,
                               !.exit_msg = "udp_client"]
    /\ UNCHANGED << pc, procvars >>

\* udptunnel.c lines 671-684, client: the datagram socket
ClientUdpListener ==
    /\ acc.pc = "role"
    /\ ~acc.env.is_server
    /\ acc' = IF acc.env.use_inetd
              THEN [acc EXCEPT !.pc = "tcp_client", !.udp_sock = 0]
              ELSE IF acc.env.sd_listen_fds # 0
              THEN IF acc.env.sd_listen_fds # 1
                   THEN [acc EXCEPT !.pc = "exited", !.exit_status = 2,
                            !.exit_msg = "UDP socket activation supports a single socket."]
                   ELSE IF ~acc.env.valid[1]
                   THEN [acc EXCEPT !.pc = "exited", !.exit_status = 2,
                            !.exit_msg = "UDP socket activation fd is not valid."]
                   ELSE [acc EXCEPT !.pc = "tcp_client",
                                    !.udp_sock = SD_LISTEN_FDS_START]
              ELSE IF acc.env.udp_ok
              THEN [acc EXCEPT !.pc = "tcp_client", !.udp_sock = 3]
              ELSE [acc EXCEPT !.pc = "exited", !.exit_status = 1,
                               !.exit_msg = "udp_listener"]
    /\ UNCHANGED << pc, procvars >>

\* udptunnel.c lines 685-687: tcp_client and send_handshake
TcpClient ==
    /\ acc.pc = "tcp_client"
    /\ acc' = IF acc.env.tcp_ok
              THEN [acc EXCEPT !.pc = "main_loop",
                               !.tcp_sock = IF acc.udp_sock = 3 THEN 4 ELSE 3]
              ELSE [acc EXCEPT !.pc = "exited", !.exit_status = 1,
                               !.exit_msg = "tcp_client"]
    /\ UNCHANGED << pc, procvars >>

NextStartup ==
    \/ SdNotify
    \/ ServerListen
    \/ AcceptConnections
    \/ ServerInetd
    \/ UdpClient
    \/ ClientUdpListener
    \/ TcpClient

AddrLists == UNION { [1..n -> AddrOutcomes] : n \in 1..MaxAddrs }

\* what the environment of one run does
StartupEnvs ==
    LET base == [is_server |-> TRUE, use_inetd |-> FALSE, sd_listen_fds |-> 0,
                 valid |-> << >>, tcpaddr |-> << "1" >>, gai |-> "ok",
                 addrs |-> << "ok" >>, udp_ok |-> TRUE, tcp_ok |-> TRUE]
    IN  { [base EXCEPT !.tcpaddr = s, !.addrs = a] :
             s \in ListenAddrs, a \in AddrLists }
        \cup { [base EXCEPT !.gai = g, !.addrs = << >>] :
                  g \in {"EAI_SYSTEM", "EAI_NONAME"} }
        \cup { [base EXCEPT !.sd_listen_fds = Len(v), !.valid = v] :
                  v \in UNION { [1..n -> BOOLEAN] : n \in 1..MaxPassed } }
        \cup { [base EXCEPT !.is_server = srv, !.use_inetd = TRUE, !.udp_ok = u,
                            !.tcp_ok = t] :
                  srv \in BOOLEAN, u \in BOOLEAN, t \in BOOLEAN }
        \cup { [base EXCEPT !.is_server = FALSE, !.udp_ok = u, !.tcp_ok = t] :
                  u \in BOOLEAN, t \in BOOLEAN }
        \cup { [base EXCEPT !.is_server = FALSE, !.sd_listen_fds = Len(v),
                            !.valid = v, !.tcp_ok = t] :
                  v \in UNION { [1..n -> BOOLEAN] : n \in 1..MaxPassed },
                  t \in BOOLEAN }

\* main after parse_args (udptunnel.c lines 623-634)
InitStartup ==
    /\ InitRelays(<< >>)
    /\ udp_left = << >>
    /\ wire_left = 0
    /\ \E env \in StartupEnvs :
          acc = [pc |-> "main", env |-> env, notified |-> FALSE,
                 listening_sockets |-> << >>, tcp_sock |-> -1, udp_sock |-> -1,
                 exit_status |-> -1, exit_msg |-> ""]

SpecStartup == InitStartup /\ [][NextStartup]_vars

\* C22: the acceptor never runs on an empty set of listening sockets:
\* tcp_listener returns one socket or more, or the process ends.
C22_ListenersNotEmpty ==
    acc.pc \in {"accept_connections", "select"} => acc.listening_sockets # << >>

\* C24: when READY=1 has been sent, the sockets of the role are there: the
\* server has its listening sockets (or its connection, under inetd), the
\* client its datagram socket and its connection; a process that ended
\* during its set-up has not sent it.
C24_ReadyAfterInit ==
    acc.notified =>
        /\ acc.pc # "exited"
        /\ \/ acc.listening_sockets # << >>
           \/ acc.env.is_server /\ acc.tcp_sock # -1
           \/ ~acc.env.is_server /\ acc.tcp_sock # -1 /\ acc.udp_sock # -1

(***************************************************************************)
(* C31. A server worker enters main_loop with remote_udpaddr set to the    *)
(* destination it was configured with; it keeps it until a datagram of one *)
(* byte or more arrives; and the first frame it decodes is handed to       *)
(* sendto with that destination: it is not dropped for want of a peer.     *)
(***************************************************************************)
C31_WorkerPeerInitialised ==
    \A e \in Procs :
        opts[e].is_server =>
            /\ (pc[e] = "main_loop" /\ SelectSeq(udp_rx[e], IsNonEmptyData) = << >>)
                  => relay[e].remote_udpaddr = opts[e].udpaddr
            /\ opts[e].udpaddr # NoAddr
            /\ udp_tx[e] # << >> =>
                  /\ udp_tx[e][1].to = opts[e].udpaddr
                  /\ udp_tx[e][1].result # "nopeer"

\* the server has sent the first frame it decoded to the destination
C31_Witness ==
    /\ opts["server"].is_server
    /\ udp_tx["server"] # << >>
    /\ udp_tx["server"][1].to = "dest"
    /\ udp_tx["server"][1].result = "sent"

(***************************************************************************)
(* A client fed frames by any program, whose sendto may fail.  It has no   *)
(* peer address until a datagram reaches it.                               *)
(***************************************************************************)
\* what the stream peer sends: a frame of no bytes and a frame of one
FrameSegments == { htons(0), out_packet(FromSeq(<< 65 >>)) }

NextDrops ==
    \/ Next
    \/ \E seg \in FrameSegments : WireSend(seg)
    \/ \E e \in ProcIds : MainLoopSendtoFails(e)

InitDrops ==
    /\ InitProcs([a |-> ClientOpts])
    /\ udp_left = [a |-> MaxReplies]
    /\ wire_left = MaxWire

SpecDrops == InitDrops /\ [][NextDrops]_vars

\* the payloads of the complete frames at the start of the bytes b
RECURSIVE RefFrames(_)
RefFrames(b) ==
    IF BLen(b) < LengthLen THEN << >>
    ELSE IF BLen(b) < LengthLen + ntohs(b, 0) THEN << >>
    ELSE << BSub(b, LengthLen, ntohs(b, 0)) >>
         \o RefFrames(BDrop(b, LengthLen + ntohs(b, 0)))

\* the bytes e has read behind the handshake it expects
FrameBytes(e) ==
    IF opts[e].is_server THEN BDrop(tcp_rx[e], HandshakeLen) ELSE tcp_rx[e]

\* C36: whatever became of the sends (no peer yet, refused, sent), a relay
\* that runs has handed to send_udp_packet, once each and in their order,
\* exactly the payloads of the complete frames among the bytes it has read:
\* a dropped frame is consumed like a sent one, is not handed over again,
\* and the frames behind it come out with their own bytes.
C36_DropsConsumed ==
    \A e \in Procs :
        pc[e] = "main_loop" => Handed(e) = RefFrames(FrameBytes(e))

\* a frame dropped for want of a peer, then a refused one, then one with
\* other bytes that was sent
C36_Witness ==
    \E e \in Procs :
        /\ pc[e] = "main_loop" /\ tcp_in[e] = << >>
        /\ \E i, j, k \in 1..Len(udp_tx[e]) :
              /\ i < j /\ j < k
              /\ udp_tx[e][i].result = "nopeer"
              /\ udp_tx[e][j].result = "refused"
              /\ udp_tx[e][k].result = "sent"
              /\ udp_tx[e][k].data # udp_tx[e][j].data

(***************************************************************************)
(* Empty datagrams and the idle timer.                                     *)
(***************************************************************************)
\* C37: a pass of main_loop that receives a datagram of no bytes leaves the
\* peer address as it was and the relay in main_loop; when the pass read
\* nothing from the stream it leaves the whole relay record (peer, buffer,
\* parser) as it was; and the time of the last datagram input, when the
\* datagram timer is armed, becomes the time of the pass (it stays 0 when
\* the timer is not armed).
C37_EmptyDatagramIsActivity ==
    [][\A e \in Procs :
          ReceivedEmpty(e) =>
              /\ pc'[e] = "main_loop"
              /\ relay'[e].remote_udpaddr = relay[e].remote_udpaddr
              /\ tcp_rx'[e] = tcp_rx[e] => relay'[e] = relay[e]
              /\ last_udp_input'[e] = IF last_udp_input[e] # 0 THEN now ELSE 0]_vars

\* a client with a timeout to which came, some time after it started, one
\* datagram, of no bytes: it has no peer, and its timer was set again
C37_Witness ==
    \E e \in Procs :
        /\ pc[e] = "main_loop"
        /\ ~opts[e].is_server
        /\ Len(udp_rx[e]) = 1
        /\ IsEmptyData(udp_rx[e][1])
        /\ relay[e].remote_udpaddr = NoAddr
        /\ select_at[e] > 0
        /\ last_udp_input[e] = now
        /\ now >= SelectWait

(***************************************************************************)
(* A server worker whose stream peer keeps sending.  acc.sent_at is the    *)
(* time of the peer's last bytes (of its connect, before the first): the   *)
(* peer does not let more than the worker's timeout pass between two.      *)
(***************************************************************************)
\* the values of --timeout: the step of the clock, and above SelectWait
KeepaliveTimeouts == {TickStep, 12}

\* what the peer sends: the token, and half of a length
KeepaliveSegments == { DefaultHandshake, Rep(0, 1) }

\* the peer sends a segment
PeerSend(seg) ==
    /\ wire_left > 0
    /\ \A e \in Procs : ~tcp_eof[e]
    /\ wire_left' = wire_left - 1
    /\ tcp_in' = [e \in Procs |->
                    IF pc[e] = "exited" THEN tcp_in[e] ELSE BCat(tcp_in[e], seg)]
    /\ acc' = [acc EXCEPT !.sent_at = now]
    /\ UNCHANGED << relay, pc, exit_status, exit_msg, last_udp_input,
                    last_tcp_input, opts, now, tcp_eof, tcp_tx, tcp_rx,
                    udp_tx, udp_rx, udp_left, faults, select_at >>

\* TickStep seconds pass, when that does not make the peer late
KeepaliveTick ==
    /\ \A e \in Procs : now + TickStep - acc.sent_at <= opts[e].timeout
    /\ Tick

NextKeepalive ==
    \/ \E e \in ProcIds : Start(e, TRUE)
    \/ \E e \in ProcIds : MainLoop(e)
    \/ \E seg \in KeepaliveSegments : PeerSend(seg)
    \/ KeepaliveTick
    \/ \E e \in ProcIds : MainLoopTimeout(e)

InitKeepalive ==
    /\ \E t \in KeepaliveTimeouts :
          InitRelays([a |-> [ServerOpts EXCEPT !.timeout = t]])
    /\ acc = [pc |-> "none", sent_at |-> now]
    /\ udp_left = [a |-> MaxReplies]
    /\ wire_left = MaxWire

SpecKeepalive == InitKeepalive /\ [][NextKeepalive]_vars

\* e read bytes from its stream in this step and goes on
ReadSome(e) ==
    /\ BLen(tcp_rx'[e]) > BLen(tcp_rx[e])
    /\ pc'[e] = "main_loop"

\* C38: a pass of a relay with a stream timeout that reads one byte or more
\* and goes on sets the time of the last stream input to the time of the
\* pass, whatever the bytes complete; and a worker whose peer never lets
\* more than the timeout pass between its sends does not end with the
\* notice of the stream timeout, whether the bytes ever make a handshake or
\* a frame or not.
C38_StreamInputKeepsAlive ==
    /\ [][\A e \in Procs :
             ReadSome(e) /\ relay[e].tcp_timeout # 0 => last_tcp_input'[e] = now]_vars
    /\ [](\A e \in Procs : exit_msg[e] # TcpTimeoutMsg)

\* a worker with timeout 12 that has read less than a handshake and sent no
\* datagram has come through a select that returned 0, more than 12 seconds
\* after it started
C38_Witness ==
    \E e \in Procs :
        /\ SurvivedTimeoutPass(e)
        /\ opts[e].timeout = 12
        /\ tcp_rx[e] # << >>
        /\ BLen(tcp_rx[e]) < HandshakeLen
        /\ relay[e].state = "reading_handshake"
        /\ udp_tx[e] = << >>
        /\ last_tcp_input[e] > 1
        /\ now > 1 + opts[e].timeout

(***************************************************************************)
(* A client both of whose sockets may hold input.  acc.udp_in is the       *)
(* receive queue of the datagram socket, and acc.last what the last pass   *)
(* of main_loop found ready and what it took.                              *)
(***************************************************************************)
\* the datagrams that arrive: one of a byte and one of none
ReadyDatagrams(e) == { x \in Datagrams(e) : BLen(x.data) <= 1 }

\* a datagram arrives on the datagram socket of e
DatagramArrives(e) ==
    /\ e \in Procs
    /\ pc[e] # "exited"
    /\ UdpBound(e)
    /\ Len(acc.udp_in) < udp_left[e]
    /\ \E x \in ReadyDatagrams(e) :
          acc' = [acc EXCEPT !.udp_in = Append(@, x)]
    /\ UNCHANGED << pc, procvars >>

\* a pass of main_loop in which select reports every socket that has input
MainLoopReady(e) ==
    /\ e \in Procs
    /\ pc[e] = "main_loop"
    /\ LET udp_set == acc.udp_in # << >>
           d == IF udp_set
                THEN [from |-> Head(acc.udp_in).from, data |-> Head(acc.udp_in).data,
                      recv_ok |-> TRUE, send_ok |-> TRUE, short |-> 0]
                ELSE NoDatagram
       IN  /\ udp_set \/ TcpReady(e)
           /\ \E rl \in IF TcpReady(e) THEN ReadLens(e) ELSE {0} :
                 LET q == main_loop_pass(P(e), now, "ready", TcpReady(e), rl,
                                         NoFault, udp_set, d)
                     got == Len(q.udp_rx) - Len(udp_rx[e])
                 IN  /\ BumpProc(e, q, got, 0)
                     /\ acc' = [acc EXCEPT
                                  !.udp_in = SubSeq(@, got + 1, Len(@)),
                                  !.last = [tcp_set |-> TcpReady(e),
                                            udp_set |-> udp_set,
                                            read |-> BLen(q.tcp_rx) - BLen(tcp_rx[e]),
                                            recv |-> got]]

NextReady ==
    \/ \E e \in ProcIds : Start(e, TRUE)
    \/ \E e \in ProcIds : Handshake(e, TRUE)
    \/ \E e \in ProcIds : MainLoopReady(e)
    \/ \E e \in ProcIds : DatagramArrives(e)
    \/ \E seg \in FrameSegments : WireSend(seg)

InitReady ==
    /\ InitRelays([a |-> ClientOpts])
    /\ acc = [pc |-> "none", udp_in |-> << >>,
              last |-> [tcp_set |-> FALSE, udp_set |-> FALSE, read |-> 0, recv |-> 0]]
    /\ udp_left = [a |-> MaxDatagrams]
    /\ wire_left = MaxIdleWire

SpecReady == InitReady /\ [][NextReady]_vars

\* e makes a pass of main_loop in this step
MakesPass(e) ==
    /\ pc[e] = "main_loop"
    /\ << tcp_rx[e], udp_rx[e], pc[e] >> # << tcp_rx'[e], udp_rx'[e], pc'[e] >>

\* C34: a pass of main_loop takes from the stream no more than one read can
\* return and from the datagram socket no more than one datagram, the one
\* at the head of the queue; a pass that finds both sockets with input and
\* does not end the relay takes bytes from the stream and one datagram, so
\* that input waiting on one socket is served in the next pass whatever
\* waits on the other.
C34_BothDirectionsServed ==
    [][\A e \in Procs :
          MakesPass(e) =>
              /\ BLen(tcp_rx'[e]) - BLen(tcp_rx[e]) \in
                    IF TcpReady(e) THEN ReadLens(e) ELSE {0}
              /\ Len(udp_rx'[e]) - Len(udp_rx[e]) \in {0, 1}
              /\ Len(acc'.udp_in) >= Len(acc.udp_in) - 1
              /\ Len(udp_rx'[e]) > Len(udp_rx[e]) =>
                    /\ udp_rx'[e][Len(udp_rx'[e])].from = Head(acc.udp_in).from
                    /\ acc'.udp_in = Tail(acc.udp_in)
              /\ pc'[e] = "main_loop" =>
                    /\ tcp_in[e] # << >> => BLen(tcp_rx'[e]) > BLen(tcp_rx[e])
                    /\ acc.udp_in # << >> => Len(udp_rx'[e]) = Len(udp_rx[e]) + 1]_vars

\* the last pass found both sockets with input and took bytes and a
\* datagram, and input waits again on both
C34_Witness ==
    \E e \in Procs :
        /\ pc[e] = "main_loop"
        /\ acc.last = [tcp_set |-> TRUE, udp_set |-> TRUE, read |-> LengthLen, recv |-> 1]
        /\ tcp_in[e] # << >>
        /\ acc.udp_in # << >>

(***************************************************************************)
(* The tunnel when a send on the stream may take a part of the frame.      *)
(***************************************************************************)
\* the bytes a short send leaves out
ShortBy == {1, LengthLen}

\* a pass of main_loop that receives a datagram and whose send() returns
\* fewer bytes than it was given
MainLoopShortSend(e) ==
    /\ e \in Procs
    /\ pc[e] = "main_loop"
    /\ faults < MaxFaults
    /\ udp_left[e] > 0 /\ UdpBound(e)
    /\ \E x \in Datagrams(e), k \in ShortBy :
       \E rl \in IF TcpReady(e) THEN ReadLens(e) ELSE {0} :
          /\ BLen(x.data) > 0
          /\ Bump(e, main_loop_pass(P(e), now, "ready", TcpReady(e), rl, NoFault,
                                    TRUE, [from |-> x.from, data |-> x.data,
                                           recv_ok |-> TRUE, send_ok |-> TRUE,
                                           short |-> k]),
                  1, 1)

NextShort ==
    \/ Next
    \/ \E e \in ProcIds : MainLoopShortSend(e)

SpecShort == Init /\ [][NextShort]_vars

\* b is a concatenation of complete frames
RECURSIVE WholeFrames(_)
WholeFrames(b) ==
    \/ BLen(b) = 0
    \/ /\ BLen(b) >= LengthLen
       /\ BLen(b) >= LengthLen + ntohs(b, 0)
       /\ WholeFrames(BDrop(b, LengthLen + ntohs(b, 0)))

\* C33: the sends of a relay behind its handshake are, one for one and in
\* order, the frames of the datagrams it forwarded (length and payload in
\* one call), and the bytes they put on the stream are a concatenation of
\* complete frames.
C33_WholeFramesOnStream ==
    \A e \in Tunnel :
        /\ Len(FrameWrites(e)) = Len(Forwarded(e))
        /\ \A i \in 1..Len(FrameWrites(e)) :
              FrameWrites(e)[i] = out_packet(Forwarded(e)[i])
        /\ WholeFrames(Flatten(FrameWrites(e)))

(***************************************************************************)
(* accept_connections with calls that may fail (network.c 397-490).  The   *)
(* acceptor is acc: pc is the place in the loop, ret and errno what the    *)
(* last call left, cause the errno that call itself set ("0" when it       *)
(* succeeded), ready the listeners select reported, i the index of the for *)
(* loop, tried and res the accepts of this wake-up and their outcomes,     *)
(* spawned its forks, forked and running the workers made and alive.       *)
(***************************************************************************)
\* the calls of select in a run
MaxWakeups == 2

LoopListeners == 1..NumListeners

\* errno of a select that fails, of an accept that fails
SelectErrnos == {"EINTR", "EAGAIN", "EBADF"}

AcceptErrnos == {"EAGAIN", "ECONNABORTED"}

\* err_sys in the acceptor
LoopExit(a, msg) ==
    [a EXCEPT !.pc = "exited", !.exit_status = 1, !.exit_msg = msg]

\* line 429: select returns, with listeners readable or with -1
LoopSelect ==
    /\ acc.pc = "select"
    /\ acc.wakeups < MaxWakeups
    /\ \/ \E R \in SUBSET LoopListeners \ {{}} :
             acc' = [acc EXCEPT !.pc = "select_check", !.wakeups = @ + 1,
                                !.ret = Cardinality(R), !.cause = "0",
                                !.ready = R, !.tried = << >>, !.res = << >>,
                                !.spawned = 0]
       \/ \E en \in SelectErrnos :
             acc' = [acc EXCEPT !.pc = "select_check", !.wakeups = @ + 1,
                                !.ret = -1, !.errno = en, !.cause = en,
                                !.ready = {}, !.tried = << >>, !.res = << >>,
                                !.spawned = 0]
    /\ UNCHANGED << pc, procvars >>

\* lines 429-433: the test of what select returned
LoopSelectCheck ==
    /\ acc.pc = "select_check"
    /\ acc' = IF acc.ret < 0
              THEN IF acc.errno = "EINTR" \/ acc.errno = "EAGAIN"
                   THEN [acc EXCEPT !.pc = "select"]
                   ELSE LoopExit(acc, "select")
              ELSE [acc EXCEPT !.pc = "for", !.i = 1]
    /\ UNCHANGED << pc, procvars >>

\* lines 439-450: the head of the for loop, up to the return of accept
LoopFor ==
    /\ acc.pc = "for"
    /\ IF acc.i > NumListeners THEN acc' = [acc EXCEPT !.pc = "select"]
       ELSE IF acc.i \notin acc.ready THEN acc' = [acc EXCEPT !.i = @ + 1]
       ELSE \/ acc' = [acc EXCEPT !.pc = "accept_check", !.ret = 0,
                                  !.cause = "0",
                                  !.tried = Append(@, acc.i),
                                  !.res = Append(@, "ok")]
            \/ \E en \in AcceptErrnos :
                  acc' = [acc EXCEPT !.pc = "accept_check", !.ret = -1,
                                     !.errno = en, !.cause = en,
                                     !.tried = Append(@, acc.i),
                                     !.res = Append(@, en)]
    /\ UNCHANGED << pc, procvars >>

\* LoopAcceptCheck that leaves the for loop when accept would block
LoopAcceptCheck_eagain_breaks ==
    /\ acc.pc = "accept_check"
    /\ acc' = IF acc.ret < 0
              THEN IF acc.errno = "EAGAIN"
                   THEN [acc EXCEPT !.pc = "select"]
                   ELSE LoopExit(acc, "accept")
              ELSE [acc EXCEPT !.pc = "fork"]
    /\ UNCHANGED << pc, procvars >>

\* lines 451-455: the test of what accept returned
LoopAcceptCheck ==
    /\ acc.pc = "accept_check"
    /\ acc' = IF acc.ret < 0
              THEN IF acc.errno = "EAGAIN"
                   THEN [acc EXCEPT !.pc = "for", !.i = @ + 1]
                   ELSE LoopExit(acc, "accept")
              ELSE [acc EXCEPT !.pc = "fork"]
    /\ UNCHANGED << pc, procvars >>

\* lines 471-480, in the parent: fork, its test, close(fd), and on to the
\* next listener (errno of a failed fork is not looked at: EAGAIN stands
\* for any)
LoopFork(ok) ==
    /\ acc.pc = "fork"
    /\ acc' = IF ok
              THEN [acc EXCEPT !.pc = "for", !.i = @ + 1, !.cause = "0",
                               !.forked = @ + 1, !.running = @ + 1,
                               !.spawned = @ + 1]
              ELSE LoopExit([acc EXCEPT !.ret = -1, !.errno = "EAGAIN",
                                        !.cause = "EAGAIN"], "fork")
    /\ UNCHANGED << pc, procvars >>

NextLoop ==
    \/ LoopSelect
    \/ LoopSelectCheck
    \/ LoopFor
    \/ LoopAcceptCheck
    \/ LoopFork(TRUE)
    \/ LoopFork(FALSE)

\* the server at the top of accept_connections, with no worker
InitLoop ==
    /\ InitRelays(<< >>)
    /\ udp_left = << >>
    /\ wire_left = 0
    /\ acc = [pc |-> "select", ret |-> 0, errno |-> "0", cause |-> "0",
              ready |-> {}, i |-> 0, tried |-> << >>, res |-> << >>,
              wakeups |-> 0, forked |-> 0, spawned |-> 0, running |-> 0,
              zombies |-> 0,
              pending |-> FALSE, exit_status |-> -1, exit_msg |-> ""]

SpecLoop == InitLoop /\ [][NextLoop]_vars

\* the listeners accept was called on in this wake-up
Tried == { acc.tried[n] : n \in 1..Len(acc.tried) }

\* the accepts of this wake-up that gave a connection
Accepted == { n \in 1..Len(acc.res) : acc.res[n] = "ok" }

\* C32: in a wake-up accept is called on the readable listeners only, in
\* their order and once each: when the for loop is at i, on those below i,
\* and when the loop is done, on every one, whatever accept did on the
\* others short of a fatal failure (an accept that fails with EAGAIN is
\* followed by the next listener); every connection accepted is forked for;
\* after a select that fails nothing is accepted, and the acceptor is back
\* in select when errno is EINTR or EAGAIN; the acceptor ends, with status
\* 1, exactly on another failure of select, on a failure of accept other
\* than EAGAIN, and on a failure of fork.
C32_AcceptLoop ==
    /\ \A m, n \in 1..Len(acc.tried) : m < n => acc.tried[m] < acc.tried[n]
    /\ Tried \subseteq acc.ready
    /\ acc.pc = "for" => Tried = { k \in acc.ready : k < acc.i }
    /\ acc.pc \in {"accept_check", "fork"} =>
          /\ Tried = { k \in acc.ready : k <= acc.i }
          /\ acc.i \in acc.ready
    /\ acc.pc = "select" => Tried = acc.ready
    /\ acc.pc \in {"select", "for"} =>
          /\ \A n \in 1..Len(acc.res) : acc.res[n] \in {"ok", "EAGAIN"}
          /\ acc.cause \in {"0", "EINTR", "EAGAIN"}
    /\ acc.pc = "fork" => acc.cause = "0" /\ acc.res[Len(acc.res)] = "ok"
    /\ acc.pc = "exited" =>
          /\ acc.exit_status = 1
          /\ \/ acc.exit_msg = "select" /\ acc.cause = "EBADF" /\ acc.tried = << >>
             \/ acc.exit_msg = "accept" /\ acc.cause = "ECONNABORTED"
             \/ acc.exit_msg = "fork" /\ acc.res[Len(acc.res)] = "ok"
    /\ acc.pc \in {"select", "for"} => acc.spawned = Cardinality(Accepted)

\* a wake-up with every listener readable is done: accept would block on
\* the first listener, and the last one gave a connection that was forked for
C32_Witness ==
    /\ acc.pc = "select"
    /\ acc.ready = LoopListeners
    /\ Len(acc.tried) = NumListeners
    /\ acc.res[1] = "EAGAIN"
    /\ acc.res[NumListeners] = "ok"
    /\ acc.forked >= 1

(***************************************************************************)
(* The same loop with workers that end: SIGCHLD and wait_for_child.        *)
(***************************************************************************)
\* a worker ends: it is a zombie, and SIGCHLD is pending for the acceptor
WorkerExits ==
    /\ acc.pc # "exited"
    /\ acc.running > 0
    /\ acc' = [acc EXCEPT !.running = @ - 1, !.zombies = @ + 1,
                          !.pending = TRUE]
    /\ UNCHANGED << pc, procvars >>

\* udptunnel.c 535-538: SIGCHLD is delivered, wherever the acceptor is, and
\* wait_for_child runs to its end: waitpid returns the zombies one by one,
\* then 0 when workers are left (errno untouched) or -1 with errno ECHILD
\* when none is; errno is not saved and restored
LoopSigchld ==
    /\ acc.pc # "exited"
    /\ acc.pending
    /\ acc' = [acc EXCEPT !.pending = FALSE, !.zombies = 0,
                          !.errno = IF acc.running = 0 THEN "ECHILD" ELSE @]
    /\ UNCHANGED << pc, procvars >>

NextLoopSig ==
    \/ NextLoop
    \/ WorkerExits
    \/ LoopSigchld

SpecLoopSig == InitLoop /\ [][NextLoopSig]_vars

\* C35: the handler does not change what the acceptor does: the acceptor
\* does not end after a select that failed with EINTR or EAGAIN nor after
\* an accept that failed with EAGAIN, whenever workers end and SIGCHLD is
\* delivered.
C35_HandlerTransparent ==
    acc.pc = "exited" =>
       /\ acc.exit_msg = "select" => acc.cause \notin {"EINTR", "EAGAIN"}
       /\ acc.exit_msg = "accept" => acc.cause # "EAGAIN"

=============================================================================
